---- MODULE Spec2Model ----
(***************************************************************************)
(* Worker-to-station scheduler: the estimation engine of Algorithm.py and  *)
(* the operator actions of ui.py (hire, fire, start, advance cycle).       *)
(*                                                                         *)
(* Python floats are modelled as exact rationals <<num, den>> (den > 0, in *)
(* lowest terms).  Worker ids are the digit strings produced by the        *)
(* "%04d" formatting of the id counter.  A Python dict keyed by station is *)
(* a function on 1..WSTATION; a missing key of performance_percentages is  *)
(* the empty sequence (the code never stores an empty list under a key).   *)
(***************************************************************************)
EXTENDS Integers, Sequences, FiniteSets, TLC

\* ---------------------------------------------------------------- configuration
WSTATION == 6
SIMULATION_TIME == 8

Stations == 1..WSTATION

\* ---------------------------------------------------------------- bounds
\* hires over the lifetime of one UI session
MaxHires == 3
\* collection runs started in one UI session / one chained collector scenario
MaxRuns == 2
\* workers of a directly called collection run
MaxCollectWorkers == 7
\* workers in the argument of a directly called assignment function
MaxFnWorkers == 7
\* longest id list taken in every order rather than in id order only
MaxPermuted == 3
\* worker counts handed to the quota computation
MaxQuotaN == 14
\* workers of a collection run over several position rows
MaxRowWorkers == 12
\* workers of a directly called solver or position optimizer
MaxSolveWorkers == 8

\* ---------------------------------------------------------------- float arithmetic
Abs(n) == IF n < 0 THEN -n ELSE n

RECURSIVE GCD(_, _)
GCD(a, b) == IF b = 0 THEN a ELSE GCD(b, a % b)

RNorm(n, d) ==
    LET g == GCD(Abs(n), d)
    IN  IF n = 0 THEN <<0, 1>> ELSE <<n \div g, d \div g>>

R(n) == <<n, 1>>

\* sums over the least common denominator and products cancelled crosswise
\* keep the intermediate integers small
RAdd(a, b) ==
    LET g == GCD(a[2], b[2])
    IN  RNorm(a[1] * (b[2] \div g) + b[1] * (a[2] \div g), (a[2] \div g) * b[2])

RNeg(a) == <<-a[1], a[2]>>

RSub(a, b) == RAdd(a, RNeg(b))

RMul(a, b) ==
    LET x == RNorm(a[1], b[2])
        y == RNorm(b[1], a[2])
    IN  <<x[1] * y[1], x[2] * y[2]>>

\* 1 / b for b # 0
RInv(b) == IF b[1] > 0 THEN <<b[2], b[1]>> ELSE <<-b[2], -b[1]>>

RDiv(a, b) == RMul(a, RInv(b))

RLess(a, b) ==
    LET g == GCD(a[2], b[2])
    IN  a[1] * (b[2] \div g) < b[1] * (a[2] \div g)

RECURSIVE RSum(_)
RSum(seq) == IF seq = <<>> THEN R(0) ELSE RAdd(RSum(Tail(seq)), Head(seq))

\* ---------------------------------------------------------------- sequences
Range(seq) == {seq[i] : i \in 1..Len(seq)}

RECURSIVE Concat(_, _)
\* the stations' sequences of assignment, stations n..WSTATION, one after another
Concat(assignment, n) ==
    IF n > WSTATION THEN <<>> ELSE assignment[n] \o Concat(assignment, n + 1)

RECURSIVE Without(_, _)
Without(seq, x) ==
    IF seq = <<>> THEN <<>>
    ELSE IF Head(seq) = x THEN Without(Tail(seq), x)
    ELSE <<Head(seq)>> \o Without(Tail(seq), x)

\* ---------------------------------------------------------------- worker ids
\* f"{worker_id:04d}": the decimal digits, padded with zeros to width 4
RECURSIVE Digits(_)
Digits(n) == IF n < 10 THEN <<n>> ELSE Digits(n \div 10) \o <<n % 10>>

RECURSIVE PadLeft(_, _)
PadLeft(ds, width) == IF Len(ds) >= width THEN ds ELSE PadLeft(<<0>> \o ds, width)

FormatId(n) == PadLeft(Digits(n), 4)

\* ---------------------------------------------------------------- TrueWorkerProfile
get_skill(true_worker, station) == true_worker.skill[station]

\* (1 - exp(-x)) / x has no closed rational form; its value is modelled by
\* the rational 1 / (1 + x/2 + x^2/12), which lies in (0, 1] and decreases in x.
ExpDecayAvg(x) ==
    RDiv(R(1), RAdd(RAdd(R(1), RDiv(x, R(2))), RDiv(RMul(x, x), R(12))))

calculate_energy_avg(true_worker, fatigue_cost) ==
    LET k  == RDiv(R(fatigue_cost), R(true_worker.fatigue_base + 5))
        kT == RMul(k, R(SIMULATION_TIME))
    IN  IF RLess(kT, <<1, 1000>>) THEN R(1) ELSE ExpDecayAvg(kT)

calculate_performance(true_worker, station, task_delivery_time, task_fatigue_cost) ==
    RMul(RDiv(R(get_skill(true_worker, station)), R(task_delivery_time)),
         calculate_energy_avg(true_worker, task_fatigue_cost))

\* ---------------------------------------------------------------- FactoryWorkerProfile
NoData == [s \in Stations |-> <<>>]

NewFactoryWorker(worker_id) ==
    [worker_id |-> worker_id, performance_percentages |-> NoData]

record_performance_percentage(worker, station, percentage) ==
    [worker EXCEPT !.performance_percentages[station] = Append(@, percentage)]

get_average_percentage(worker, station) ==
    LET obs == worker.performance_percentages[station]
    IN  IF obs = <<>> THEN R(0) ELSE RDiv(RSum(obs), R(Len(obs)))

\* variant: the length test off by one
has_data_for_station_two(worker, station) ==
    Len(worker.performance_percentages[station]) > 1

has_data_for_station(worker, station) ==
    Len(worker.performance_percentages[station]) > 0

get_data_completeness(worker) ==
    LET stations_with_data ==
            Cardinality({i \in Stations : has_data_for_station(worker, i)})
    IN  RMul(RDiv(R(stations_with_data), R(WSTATION)), R(100))

\* {w.worker_id: w for w in workers}: the keys, and the entry a key selects
\* (the last one of the list carrying that id)
DictKeys(workers) == {workers[i].worker_id : i \in 1..Len(workers)}

DictIndex(workers, worker_id) ==
    CHOOSE i \in 1..Len(workers) :
        /\ workers[i].worker_id = worker_id
        /\ \A j \in (i + 1)..Len(workers) : workers[j].worker_id # worker_id

DictGet(workers, worker_id) == workers[DictIndex(workers, worker_id)]

\* ---------------------------------------------------------------- assignments
EmptyAssignment == [station \in Stations |-> <<>>]

RECURSIVE PlaceShifted(_, _, _)
\* variant: the station index off by one
PlaceShifted(assignment, worker_ids, idx) ==
    IF idx >= Len(worker_ids) THEN assignment
    ELSE LET station == ((idx + 1) % WSTATION) + 1
         IN  PlaceShifted(
                 [assignment EXCEPT ![station] = Append(@, worker_ids[idx + 1])],
                 worker_ids, idx + 1)

RECURSIVE PlaceDescending(_, _, _)
\* variant: the stations dealt to from the last one down
PlaceDescending(assignment, worker_ids, idx) ==
    IF idx >= Len(worker_ids) THEN assignment
    ELSE LET station == WSTATION - (idx % WSTATION)
         IN  PlaceDescending(
                 [assignment EXCEPT ![station] = Append(@, worker_ids[idx + 1])],
                 worker_ids, idx + 1)

RECURSIVE PlaceSequential(_, _, _)
\* the loop "for idx, worker_id in enumerate(worker_ids)" from index idx on
PlaceSequential(assignment, worker_ids, idx) ==
    IF idx >= Len(worker_ids) THEN assignment
    ELSE LET station == (idx % WSTATION) + 1
         IN  PlaceSequential(
                 [assignment EXCEPT ![station] = Append(@, worker_ids[idx + 1])],
                 worker_ids, idx + 1)

create_initial_assignment_sequential(worker_ids) ==
    PlaceSequential(EmptyAssignment, worker_ids, 0)

\* variant: the id removed where it stands, nothing redistributed
fire_worker_in_place(worker_id, assignment) ==
    [station \in Stations |-> Without(assignment[station], worker_id)]

fire_worker_from_assignment(worker_id, assignment) ==
    LET all_workers == Without(Concat(assignment, 1), worker_id)
    IN  PlaceSequential(EmptyAssignment, all_workers, 0)

\* ---------------------------------------------------------------- environment
\* task_dict[station_id]: the last task of the list carrying that station id
TaskOf(tasks, station_id) ==
    tasks[CHOOSE i \in 1..Len(tasks) :
              /\ tasks[i].station_id = station_id
              /\ \A j \in (i + 1)..Len(tasks) : tasks[j].station_id # station_id]

RECURSIVE StationTotal(_, _, _, _)
\* the inner loop of simulate_station_performance over worker_ids
StationTotal(true_workers, task, station_id, worker_ids) ==
    IF worker_ids = <<>> THEN R(0)
    ELSE LET n         == Len(worker_ids)
             worker_id == worker_ids[n]
             before    == StationTotal(true_workers, task, station_id,
                                       SubSeq(worker_ids, 1, n - 1))
         IN  IF worker_id \in DictKeys(true_workers)
             THEN RAdd(before,
                       calculate_performance(DictGet(true_workers, worker_id),
                                             station_id, task.delivery_time,
                                             task.fatigue_cost))
             ELSE before

simulate_station_performance(true_workers, tasks, assignment) ==
    [station_id \in Stations |->
        StationTotal(true_workers, TaskOf(tasks, station_id), station_id,
                     assignment[station_id])]

\* ---------------------------------------------------------------- position optimizer
\* stations that have a worker at position_idx, ascending
RECURSIVE StationsWithPosition(_, _, _)
StationsWithPosition(assignment, position_idx, station) ==
    IF station > WSTATION THEN <<>>
    ELSE IF position_idx < Len(assignment[station])
         THEN <<station>> \o StationsWithPosition(assignment, position_idx, station + 1)
         ELSE StationsWithPosition(assignment, position_idx, station + 1)

WorkersAtPosition(assignment, position_idx, stations) ==
    [i \in 1..Len(stations) |-> assignment[stations[i]][position_idx + 1]]

RECURSIVE BestWorkerLast(_, _, _, _, _, _)
\* variant: "score >= best_score", the last of equal scores wins
BestWorkerLast(factory_workers, position_workers, assigned_workers, station, i, best) ==
    IF i > Len(position_workers) THEN best
    ELSE LET worker_id == position_workers[i]
         IN  IF worker_id \in assigned_workers
             THEN BestWorkerLast(factory_workers, position_workers, assigned_workers,
                                 station, i + 1, best)
             ELSE IF worker_id \notin DictKeys(factory_workers)
             THEN [best EXCEPT !.raised = TRUE]
             ELSE LET score == get_average_percentage(
                                   DictGet(factory_workers, worker_id), station)
                  IN  IF ~best.found \/ ~RLess(score, best.score)
                      THEN BestWorkerLast(factory_workers, position_workers,
                                          assigned_workers, station, i + 1,
                                          [found |-> TRUE, worker |-> worker_id,
                                           score |-> score, raised |-> FALSE])
                      ELSE BestWorkerLast(factory_workers, position_workers,
                                          assigned_workers, station, i + 1, best)

RECURSIVE BestWorker(_, _, _, _, _, _)
\* the loop "for worker_id in position_workers" from index i on; best is the
\* running (best_worker, best_score), found = FALSE standing for (None, -inf)
BestWorker(factory_workers, position_workers, assigned_workers, station, i, best) ==
    IF i > Len(position_workers) THEN best
    ELSE LET worker_id == position_workers[i]
         IN  IF worker_id \in assigned_workers
             THEN BestWorker(factory_workers, position_workers, assigned_workers,
                             station, i + 1, best)
             ELSE IF worker_id \notin DictKeys(factory_workers)
             THEN [best EXCEPT !.raised = TRUE]
             ELSE LET score == get_average_percentage(
                                   DictGet(factory_workers, worker_id), station)
                  IN  IF ~best.found \/ RLess(best.score, score)
                      THEN BestWorker(factory_workers, position_workers,
                                      assigned_workers, station, i + 1,
                                      [found |-> TRUE, worker |-> worker_id,
                                       score |-> score, raised |-> FALSE])
                      ELSE BestWorker(factory_workers, position_workers,
                                      assigned_workers, station, i + 1, best)

NoBest == [found |-> FALSE, worker |-> <<>>, score |-> R(0), raised |-> FALSE]

RECURSIVE OptimizeStationsRepeating(_, _, _, _, _, _)
\* variant: the chosen workers are not remembered, a worker may be chosen for
\* several stations
OptimizeStationsRepeating(factory_workers, position_workers, stations, position_idx, i, acc) ==
    IF i > Len(stations) THEN acc
    ELSE LET station == stations[i]
             best    == BestWorker(factory_workers, position_workers,
                                   acc.assigned_workers, station, 1, NoBest)
         IN  IF best.raised THEN [acc EXCEPT !.raised = TRUE]
             ELSE IF ~best.found
             THEN OptimizeStationsRepeating(factory_workers, position_workers,
                                            stations, position_idx, i + 1, acc)
             ELSE LET old_worker == acc.assignment[station][position_idx + 1]
                  IN  OptimizeStationsRepeating(
                          factory_workers, position_workers, stations,
                          position_idx, i + 1,
                          [assignment |->
                               [acc.assignment EXCEPT
                                   ![station][position_idx + 1] = best.worker],
                           assigned_workers |-> acc.assigned_workers,
                           details |->
                               (station :> [old_worker |-> old_worker,
                                            new_worker |-> best.worker,
                                            score      |-> best.score])
                               @@ acc.details,
                           raised |-> FALSE])

RECURSIVE OptimizeStations(_, _, _, _, _, _)
\* the loop "for station in stations_with_position" from index i on
OptimizeStations(factory_workers, position_workers, stations, position_idx, i, acc) ==
    IF i > Len(stations) THEN acc
    ELSE LET station == stations[i]
             best    == BestWorker(factory_workers, position_workers,
                                   acc.assigned_workers, station, 1, NoBest)
         IN  IF best.raised THEN [acc EXCEPT !.raised = TRUE]
             ELSE IF ~best.found
             THEN OptimizeStations(factory_workers, position_workers, stations,
                                   position_idx, i + 1, acc)
             ELSE LET old_worker == acc.assignment[station][position_idx + 1]
                  IN  OptimizeStations(
                          factory_workers, position_workers, stations,
                          position_idx, i + 1,
                          [assignment |->
                               [acc.assignment EXCEPT
                                   ![station][position_idx + 1] = best.worker],
                           assigned_workers |->
                               acc.assigned_workers \cup {best.worker},
                           details |->
                               (station :> [old_worker |-> old_worker,
                                            new_worker |-> best.worker,
                                            score      |-> best.score])
                               @@ acc.details,
                           raised |-> FALSE])

\* returns the optimized assignment and the details; raised = TRUE stands for
\* the KeyError of factory_worker_dict[worker_id]
optimize_position(factory_workers, current_assignment, position_idx) ==
    LET stations_with_position ==
            StationsWithPosition(current_assignment, position_idx, 1)
        position_workers ==
            WorkersAtPosition(current_assignment, position_idx,
                              stations_with_position)
        start == [assignment       |-> current_assignment,
                  assigned_workers |-> {},
                  details          |-> <<>>,
                  raised           |-> FALSE]
    IN  IF position_workers = <<>> THEN start
        ELSE OptimizeStations(factory_workers, position_workers,
                              stations_with_position, position_idx, 1, start)

\* variant: a position needs testing only while one of its workers has no
\* observation at all
check_position_needs_testing_untested(factory_workers, assignment, position_idx) ==
    \E station \in Stations :
        /\ position_idx < Len(assignment[station])
        /\ assignment[station][position_idx + 1] \in DictKeys(factory_workers)
        /\ get_data_completeness(
               DictGet(factory_workers,
                       assignment[station][position_idx + 1])) = R(0)

check_position_needs_testing(factory_workers, assignment, position_idx) ==
    \E station \in Stations :
        /\ position_idx < Len(assignment[station])
        /\ assignment[station][position_idx + 1] \in DictKeys(factory_workers)
        /\ RLess(get_data_completeness(
                     DictGet(factory_workers,
                             assignment[station][position_idx + 1])),
                 R(100))

\* ---------------------------------------------------------------- callback payloads
\* FactoryWorkerProfile.to_dict: the keys are str(k); the lists under them are
\* the profile's own list objects (lists_of names the profile), the
\* completeness and the averages are values computed at the call
to_dict(worker) ==
    [worker_id |-> worker.worker_id,
     performance_percentages |->
         [keys     |-> {Digits(k) : k \in {s \in Stations :
                                             has_data_for_station(worker, s)}},
          lists_of |-> worker.worker_id],
     data_completeness |-> get_data_completeness(worker),
     avg_percentages |->
         [s \in Stations |-> get_average_percentage(worker, s)]]

Snapshot(factory_workers) ==
    [i \in 1..Len(factory_workers) |-> to_dict(factory_workers[i])]

\* ---------------------------------------------------------------- data collector
MaxLen(assignment) ==
    CHOOSE n \in {Len(assignment[s]) : s \in Stations} :
        \A s \in Stations : Len(assignment[s]) <= n

RECURSIVE RecordBaseFirstRow(_, _, _, _)
\* variant: the base observation recorded for the first worker of each
\* station only
RecordBaseFirstRow(factory_workers, initial_assign, station_id, i) ==
    IF station_id > WSTATION THEN factory_workers
    ELSE IF i > 1 \/ i > Len(initial_assign[station_id])
    THEN RecordBaseFirstRow(factory_workers, initial_assign, station_id + 1, 1)
    ELSE LET worker_id == initial_assign[station_id][i]
         IN  IF worker_id \in DictKeys(factory_workers)
             THEN RecordBaseFirstRow(
                      [factory_workers EXCEPT
                          ![DictIndex(factory_workers, worker_id)] =
                              record_performance_percentage(@, station_id, R(100))],
                      initial_assign, station_id, i + 1)
             ELSE RecordBaseFirstRow(factory_workers, initial_assign,
                                     station_id, i + 1)

RECURSIVE RecordBase(_, _, _, _)
\* "for station_id, worker_ids in initial_assign.items(): for worker_id in
\* worker_ids" from (station_id, index i) on
RecordBase(factory_workers, initial_assign, station_id, i) ==
    IF station_id > WSTATION THEN factory_workers
    ELSE IF i > Len(initial_assign[station_id])
    THEN RecordBase(factory_workers, initial_assign, station_id + 1, 1)
    ELSE LET worker_id == initial_assign[station_id][i]
         IN  IF worker_id \in DictKeys(factory_workers)
             THEN RecordBase(
                      [factory_workers EXCEPT
                          ![DictIndex(factory_workers, worker_id)] =
                              record_performance_percentage(@, station_id, R(100))],
                      initial_assign, station_id, i + 1)
             ELSE RecordBase(factory_workers, initial_assign, station_id, i + 1)

\* the collector's frame at the call of systematic_data_collection_ui; the
\* factory workers are the caller's objects, mutated in place
CollectorEntry(factory_workers, initial_assign) ==
    [pc                       |-> "base",
     factory_workers          |-> factory_workers,
     initial_assign           |-> initial_assign,
     base_performance         |-> [s \in Stations |-> R(0)],
     current_assignment       |-> initial_assign,
     original_assignment      |-> initial_assign,
     max_workers_per_station  |-> 0,
     cycle                    |-> 0,
     position_idx             |-> 0,
     workers_to_rotate        |-> <<>>,
     source_stations          |-> <<>>,
     temp_assignment          |-> initial_assign,
     rotation                 |-> 0,
     workers_to_process       |-> <<>>,
     gap_base_performance     |-> [s \in Stations |-> R(0)],
     gap_worker               |-> 0,
     missing_stations         |-> <<>>,
     current_station          |-> 0,
     current_position         |-> -1,
     events                   |-> <<>>]

\* lines 296-318: base performance, the base observations, the base event
BasePhase(st, true_workers, tasks) ==
    LET base_performance ==
            simulate_station_performance(true_workers, tasks, st.initial_assign)
        recorded == RecordBase(st.factory_workers, st.initial_assign, 1, 1)
    IN  [st EXCEPT
            !.pc = "position",
            !.base_performance = base_performance,
            !.factory_workers = recorded,
            !.current_assignment = st.initial_assign,
            !.original_assignment = st.initial_assign,
            !.max_workers_per_station = MaxLen(st.initial_assign),
            !.cycle = 2,
            !.position_idx = 0,
            !.events = Append(@, [cycle            |-> 1,
                                  phase            |-> "base",
                                  assignment       |-> st.initial_assign,
                                  base_performance |-> base_performance,
                                  factory_workers  |-> Snapshot(recorded)])]

\* lines 320-344: the head of one iteration of the position loop
PositionHead(st) ==
    IF st.position_idx >= st.max_workers_per_station
    THEN [st EXCEPT !.pc = "post"]
    ELSE IF ~check_position_needs_testing(st.factory_workers,
                                          st.original_assignment, st.position_idx)
    THEN [st EXCEPT
             !.position_idx = @ + 1,
             !.events = Append(@,
                 [cycle        |-> <<"Skip_Pos_", Digits(st.position_idx + 1)>>,
                  phase        |-> "skip",
                  position_idx |-> st.position_idx,
                  assignment   |-> st.current_assignment,
                  message      |-> <<"Skipped position ",
                                     Digits(st.position_idx + 1),
                                     " - all workers have complete data">>])]
    ELSE LET source_stations ==
                 StationsWithPosition(st.original_assignment, st.position_idx, 1)
             workers_to_rotate ==
                 WorkersAtPosition(st.original_assignment, st.position_idx,
                                   source_stations)
         IN  IF workers_to_rotate = <<>>
             THEN [st EXCEPT !.position_idx = @ + 1]
             ELSE [st EXCEPT
                      !.pc = "rotation",
                      !.workers_to_rotate = workers_to_rotate,
                      !.source_stations = source_stations,
                      !.temp_assignment = st.current_assignment,
                      !.rotation = 0]

\* variant: the cohort rotated the other way,
\* workers_to_rotate[-rotation:] + workers_to_rotate[:-rotation]
RotatedBack(workers_to_rotate, rotation) ==
    SubSeq(workers_to_rotate, Len(workers_to_rotate) - rotation + 1,
           Len(workers_to_rotate))
        \o SubSeq(workers_to_rotate, 1, Len(workers_to_rotate) - rotation)

\* workers_to_rotate[rotation:] + workers_to_rotate[:rotation]
Rotated(workers_to_rotate, rotation) ==
    SubSeq(workers_to_rotate, rotation + 1, Len(workers_to_rotate))
        \o SubSeq(workers_to_rotate, 1, rotation)

RECURSIVE PlaceRotated(_, _, _, _, _)
\* "for i, station in enumerate(source_stations)": temp[station][position] = ...
PlaceRotated(temp_assignment, source_stations, rotated_workers, position_idx, i) ==
    IF i > Len(source_stations) THEN temp_assignment
    ELSE PlaceRotated(
             [temp_assignment EXCEPT
                 ![source_stations[i]][position_idx + 1] = rotated_workers[i]],
             source_stations, rotated_workers, position_idx, i + 1)

RECURSIVE AdjustmentEveryPosition(_, _, _, _, _, _)
\* variant: the probed position itself is compared with the original as well
AdjustmentEveryPosition(factory_workers, temp_workers, original_workers, station_id, position_idx, pos) ==
    IF pos >= Len(temp_workers) THEN [value |-> R(0), raised |-> FALSE]
    ELSE LET worker_id == temp_workers[pos + 1]
             rest == AdjustmentEveryPosition(factory_workers, temp_workers,
                                             original_workers, station_id,
                                             position_idx, pos + 1)
         IN  IF /\ pos < Len(original_workers)
                /\ worker_id # original_workers[pos + 1]
             THEN IF worker_id \notin DictKeys(factory_workers)
                  THEN [value |-> R(0), raised |-> TRUE]
                  ELSE [value |->
                            RAdd(RSub(get_average_percentage(
                                          DictGet(factory_workers, worker_id),
                                          station_id),
                                      R(100)),
                                 rest.value),
                        raised |-> rest.raised]
             ELSE rest

RECURSIVE Adjustment(_, _, _, _, _, _)
\* lines 366-374, "for pos, worker_id in enumerate(temp_assignment[station_id])"
\* from pos on; raised = TRUE stands for the KeyError of line 373
Adjustment(factory_workers, temp_workers, original_workers, station_id, position_idx, pos) ==
    IF pos >= Len(temp_workers) THEN [value |-> R(0), raised |-> FALSE]
    ELSE LET worker_id == temp_workers[pos + 1]
             rest == Adjustment(factory_workers, temp_workers, original_workers,
                                station_id, position_idx, pos + 1)
         IN  IF /\ pos # position_idx
                /\ pos < Len(original_workers)
                /\ worker_id # original_workers[pos + 1]
             THEN IF worker_id \notin DictKeys(factory_workers)
                  THEN [value |-> R(0), raised |-> TRUE]
                  ELSE [value |->
                            RAdd(RSub(get_average_percentage(
                                          DictGet(factory_workers, worker_id),
                                          station_id),
                                      R(100)),
                                 rest.value),
                        raised |-> rest.raised]
             ELSE rest

RECURSIVE CompareStations(_, _, _, _, _)
\* lines 355-386, "for idx, station_id in enumerate(source_stations)" from idx
\* on; acc carries the factory workers, the performance comparison and raised
CompareStations(st, rotated_workers, current_performance, idx, acc) ==
    IF idx > Len(st.source_stations) \/ acc.raised THEN acc
    ELSE LET station_id == st.source_stations[idx]
             base_perf  == st.base_performance[station_id]
             curr_perf  == current_performance[station_id]
             raw_percentage ==
                 IF base_perf # R(0)
                 THEN RMul(RDiv(curr_perf, base_perf), R(100))
                 ELSE R(100)
             swapped_worker == rotated_workers[idx]
         IN  IF swapped_worker \notin DictKeys(acc.factory_workers)
             THEN [acc EXCEPT !.raised = TRUE]
             ELSE IF has_data_for_station(
                         DictGet(acc.factory_workers, swapped_worker), station_id)
             THEN CompareStations(st, rotated_workers, current_performance,
                                  idx + 1, acc)
             ELSE LET adjustment ==
                          Adjustment(acc.factory_workers,
                                     acc.temp_assignment[station_id],
                                     st.original_assignment[station_id],
                                     station_id, st.position_idx, 0)
                      adjusted_percentage ==
                          RSub(raw_percentage, adjustment.value)
                  IN  IF adjustment.raised THEN [acc EXCEPT !.raised = TRUE]
                      ELSE CompareStations(
                               st, rotated_workers, current_performance, idx + 1,
                               [acc EXCEPT
                                   !.factory_workers[DictIndex(acc.factory_workers,
                                                               swapped_worker)] =
                                       record_performance_percentage(
                                           @, station_id, adjusted_percentage),
                                   !.performance_comparison =
                                       (station_id :>
                                           [raw_percentage      |-> raw_percentage,
                                            adjusted_percentage |-> adjusted_percentage,
                                            worker              |-> swapped_worker])
                                       @@ @])

\* lines 346-399: one iteration of the rotation loop
RotationStep(st, true_workers, tasks) ==
    LET rotated_workers == Rotated(st.workers_to_rotate, st.rotation)
        temp_assignment ==
            PlaceRotated(st.temp_assignment, st.source_stations, rotated_workers,
                         st.position_idx, 1)
        current_performance ==
            simulate_station_performance(true_workers, tasks, temp_assignment)
        done == CompareStations(
                    st, rotated_workers, current_performance, 1,
                    [factory_workers        |-> st.factory_workers,
                     temp_assignment        |-> temp_assignment,
                     performance_comparison |-> <<>>,
                     raised                 |-> FALSE])
    IN  IF done.raised
        THEN [st EXCEPT !.pc = "raised",
                        !.temp_assignment = temp_assignment,
                        !.factory_workers = done.factory_workers]
        ELSE [st EXCEPT
                 !.pc = IF st.rotation + 1 < Len(st.workers_to_rotate)
                        THEN "rotation" ELSE "optimize",
                 !.temp_assignment = temp_assignment,
                 !.factory_workers = done.factory_workers,
                 !.rotation = @ + 1,
                 !.cycle = @ + 1,
                 !.events = Append(@,
                     [cycle                  |-> st.cycle,
                      phase                  |-> "rotation",
                      position_idx           |-> st.position_idx,
                      rotation               |-> st.rotation,
                      assignment             |-> temp_assignment,
                      performance_comparison |-> done.performance_comparison,
                      factory_workers        |-> Snapshot(done.factory_workers)])]

\* variant: the optimizer called after the last position as well
OptimizeStepAlways(st) ==
    LET opt == optimize_position(st.factory_workers, st.current_assignment,
                                 st.position_idx)
    IN  IF opt.raised THEN [st EXCEPT !.pc = "raised"]
        ELSE [st EXCEPT
                 !.pc = "position",
                 !.current_assignment = opt.assignment,
                 !.position_idx = @ + 1,
                 !.events = Append(@,
                     [cycle                |-> <<"Opt_", Digits(st.position_idx + 1)>>,
                      phase                |-> "optimization",
                      position_idx         |-> st.position_idx,
                      assignment           |-> opt.assignment,
                      optimization_details |-> opt.details,
                      factory_workers      |-> Snapshot(st.factory_workers)])]

\* lines 401-414: the optimizer call that ends an iteration of the position loop
OptimizeStep(st) ==
    IF st.position_idx < st.max_workers_per_station - 1
    THEN LET opt == optimize_position(st.factory_workers, st.current_assignment,
                                      st.position_idx)
         IN  IF opt.raised THEN [st EXCEPT !.pc = "raised"]
             ELSE [st EXCEPT
                      !.pc = "position",
                      !.current_assignment = opt.assignment,
                      !.position_idx = @ + 1,
                      !.events = Append(@,
                          [cycle                |-> <<"Opt_", Digits(st.position_idx + 1)>>,
                           phase                |-> "optimization",
                           position_idx         |-> st.position_idx,
                           assignment           |-> opt.assignment,
                           optimization_details |-> opt.details,
                           factory_workers      |-> Snapshot(st.factory_workers)])]
    ELSE [st EXCEPT !.pc = "position", !.position_idx = @ + 1]

RECURSIVE IncompleteWorkersBelowHalf(_)
\* variant: only the workers below 50% completeness
IncompleteWorkersBelowHalf(factory_workers) ==
    IF factory_workers = <<>> THEN <<>>
    ELSE LET n    == Len(factory_workers)
             init == IncompleteWorkersBelowHalf(SubSeq(factory_workers, 1, n - 1))
         IN  IF RLess(get_data_completeness(factory_workers[n]), R(50))
             THEN Append(init, factory_workers[n].worker_id)
             ELSE init

\* ---------------------------------------------------------------- gap filler
\* [w.worker_id for w in factory_workers if w.get_data_completeness() < 100]
RECURSIVE IncompleteWorkers(_)
IncompleteWorkers(factory_workers) ==
    IF factory_workers = <<>> THEN <<>>
    ELSE LET n    == Len(factory_workers)
             init == IncompleteWorkers(SubSeq(factory_workers, 1, n - 1))
         IN  IF RLess(get_data_completeness(factory_workers[n]), R(100))
             THEN Append(init, factory_workers[n].worker_id)
             ELSE init

RECURSIVE MissingStationsShort(_, _)
\* variant: range(1, WSTATION), the last station left out
MissingStationsShort(worker, s) ==
    IF s >= WSTATION THEN <<>>
    ELSE IF has_data_for_station(worker, s) THEN MissingStationsShort(worker, s + 1)
    ELSE <<s>> \o MissingStationsShort(worker, s + 1)

RECURSIVE MissingStations(_, _)
\* [s for s in range(1, WSTATION + 1) if not worker.has_data_for_station(s)]
MissingStations(worker, s) ==
    IF s > WSTATION THEN <<>>
    ELSE IF has_data_for_station(worker, s) THEN MissingStations(worker, s + 1)
    ELSE <<s>> \o MissingStations(worker, s + 1)

\* list.index(x), 0-based, for x in the list
IndexIn(seq, x) ==
    (CHOOSE i \in 1..Len(seq) : seq[i] = x /\ \A j \in 1..(i - 1) : seq[j] # x) - 1

\* list.remove(x) for x in the list: drops the first occurrence
RemoveFirst(seq, x) ==
    LET i == IndexIn(seq, x) + 1
    IN  SubSeq(seq, 1, i - 1) \o SubSeq(seq, i + 1, Len(seq))

\* list.insert(pos, x) for 0 <= pos < len
InsertAt(seq, pos, x) ==
    SubSeq(seq, 1, pos) \o <<x>> \o SubSeq(seq, pos + 1, Len(seq))

RECURSIVE GapEnterWorker(_, _)
\* lines 443-453: the head of the iteration for workers_to_process[i]
GapEnterWorker(st, i) ==
    IF i > Len(st.workers_to_process) THEN [st EXCEPT !.pc = "done"]
    ELSE LET worker_id == st.workers_to_process[i]
             worker    == DictGet(st.factory_workers, worker_id)
             missing_stations == MissingStations(worker, 1)
             holding == {s \in Stations :
                            worker_id \in Range(st.current_assignment[s])}
             current_station ==
                 IF holding = {} THEN 0
                 ELSE CHOOSE s \in holding : \A o \in holding : s <= o
             current_position ==
                 IF holding = {} THEN -1
                 ELSE IndexIn(st.current_assignment[current_station], worker_id)
         IN  IF missing_stations = <<>> THEN GapEnterWorker(st, i + 1)
             ELSE [st EXCEPT !.pc = "gap",
                             !.gap_worker = i,
                             !.missing_stations = missing_stations,
                             !.current_station = current_station,
                             !.current_position = current_position]

\* variant: the gap filler's base taken from the original assignment
PostPositionsOriginal(st, true_workers, tasks) ==
    LET incomplete_workers == IncompleteWorkers(st.factory_workers)
    IN  IF incomplete_workers = <<>> THEN [st EXCEPT !.pc = "done"]
        ELSE GapEnterWorker(
                 [st EXCEPT
                     !.workers_to_process = incomplete_workers,
                     !.gap_base_performance =
                         simulate_station_performance(true_workers, tasks,
                                                      st.original_assignment)],
                 1)

\* lines 416-421 and 434-441: the completeness test after the position loop
\* and the entry of collect_incomplete_worker_data_ui
PostPositions(st, true_workers, tasks) ==
    LET incomplete_workers == IncompleteWorkers(st.factory_workers)
    IN  IF incomplete_workers = <<>> THEN [st EXCEPT !.pc = "done"]
        ELSE GapEnterWorker(
                 [st EXCEPT
                     !.workers_to_process = incomplete_workers,
                     !.gap_base_performance =
                         simulate_station_performance(true_workers, tasks,
                                                      st.current_assignment)],
                 1)

\* lines 455-497: one probe of the gap filler
GapProbe(st, true_workers, tasks) ==
    LET worker_id    == st.workers_to_process[st.gap_worker]
        test_station == Head(st.missing_stations)
        removed ==
            IF st.current_station # 0
               /\ worker_id \in Range(st.current_assignment[st.current_station])
            THEN [st.current_assignment EXCEPT
                     ![st.current_station] = RemoveFirst(@, worker_id)]
            ELSE st.current_assignment
        temp_assignment ==
            IF st.current_position # -1
               /\ st.current_position < Len(removed[test_station])
            THEN [removed EXCEPT
                     ![test_station] = InsertAt(@, st.current_position, worker_id)]
            ELSE [removed EXCEPT ![test_station] = Append(@, worker_id)]
    IN  IF worker_id \notin DictKeys(true_workers)
        THEN [st EXCEPT !.pc = "raised"]
        ELSE LET true_worker == DictGet(true_workers, worker_id)
                 task        == tasks[test_station]
                 individual_performance ==
                     calculate_performance(true_worker, test_station,
                                           task.delivery_time, task.fatigue_cost)
                 base_perf   == st.gap_base_performance[test_station]
                 percentage  ==
                     IF RLess(R(0), base_perf)
                     THEN RAdd(RMul(RDiv(individual_performance, base_perf),
                                    R(100)),
                               R(100))
                     ELSE R(100)
                 recorded ==
                     [st.factory_workers EXCEPT
                         ![DictIndex(st.factory_workers, worker_id)] =
                             record_performance_percentage(@, test_station,
                                                           percentage)]
                 probed ==
                     [st EXCEPT
                         !.factory_workers = recorded,
                         !.missing_stations = Tail(@),
                         !.events = Append(@,
                             [cycle        |-> <<"Fix_", worker_id, "_S",
                                                 Digits(test_station)>>,
                              phase        |-> "incomplete_fix",
                              worker_id    |-> worker_id,
                              test_station |-> test_station,
                              assignment   |-> temp_assignment,
                              performance_comparison |->
                                  (test_station :>
                                      [worker              |-> worker_id,
                                       adjusted_percentage |-> percentage]),
                              factory_workers |-> Snapshot(recorded)])]
             IN  IF probed.missing_stations = <<>>
                 THEN GapEnterWorker(probed, st.gap_worker + 1)
                 ELSE probed

\* ---------------------------------------------------------------- the whole run
\* one step of systematic_data_collection_ui from the frame st
CollectorStep(st, true_workers, tasks) ==
    CASE st.pc = "base"     -> BasePhase(st, true_workers, tasks)
      [] st.pc = "position" -> PositionHead(st)
      [] st.pc = "rotation" -> RotationStep(st, true_workers, tasks)
      [] st.pc = "optimize" -> OptimizeStep(st)
      [] st.pc = "post"     -> PostPositions(st, true_workers, tasks)
      [] st.pc = "gap"      -> GapProbe(st, true_workers, tasks)
      [] OTHER              -> st

Returned(st) == st.pc \in {"done", "raised"}

RECURSIVE RunCollector(_, _, _)
RunCollector(st, true_workers, tasks) ==
    IF Returned(st) THEN st
    ELSE RunCollector(CollectorStep(st, true_workers, tasks), true_workers, tasks)

\* the call systematic_data_collection_ui(true_workers, factory_workers, tasks,
\* initial_assign, cycle_callback), run to its return or to the exception
systematic_data_collection_ui(true_workers, factory_workers, tasks, initial_assign) ==
    RunCollector(CollectorEntry(factory_workers, initial_assign),
                 true_workers, tasks)

\* ---------------------------------------------------------------- final solver
\* lines 512-517: worker_station_scores, in dict (factory-worker list) order
WorkerStationScores(factory_workers) ==
    [i \in 1..Len(factory_workers) |->
        [worker_id |-> factory_workers[i].worker_id,
         scores    |-> [station \in Stations |->
                           get_average_percentage(factory_workers[i], station)]]]

ScoreOf(worker_station_scores, worker_id, station) ==
    DictGet(worker_station_scores, worker_id).scores[station]

\* variant: "station < extra_workers"
workers_needed_strict(num_workers) ==
    LET base_workers  == num_workers \div WSTATION
        extra_workers == num_workers % WSTATION
    IN  [station \in Stations |->
            base_workers + (IF station < extra_workers THEN 1 ELSE 0)]

\* lines 519-524
workers_needed_per_station(num_workers) ==
    LET base_workers  == num_workers \div WSTATION
        extra_workers == num_workers % WSTATION
    IN  [station \in Stations |->
            base_workers + (IF station <= extra_workers THEN 1 ELSE 0)]

RECURSIVE ScoreTotal(_, _, _)
\* sum(worker_station_scores[wid][station] for wid in worker_ids)
ScoreTotal(worker_station_scores, station, worker_ids) ==
    IF worker_ids = <<>> THEN R(0)
    ELSE LET n == Len(worker_ids)
         IN  RAdd(ScoreTotal(worker_station_scores, station,
                             SubSeq(worker_ids, 1, n - 1)),
                  ScoreOf(worker_station_scores, worker_ids[n], station))

RECURSIVE StationsNeedingWorker(_, _, _)
StationsNeedingWorker(optimal_assignment, needed, s) ==
    IF s > WSTATION THEN <<>>
    ELSE IF Len(optimal_assignment[s]) < needed[s]
         THEN <<s>> \o StationsNeedingWorker(optimal_assignment, needed, s + 1)
         ELSE StationsNeedingWorker(optimal_assignment, needed, s + 1)

RECURSIVE InsertAscending(_, _, _)
\* x put behind every element whose total is not greater (a stable sort)
InsertAscending(sorted, x, station_totals) ==
    IF sorted = <<>> THEN <<x>>
    ELSE IF RLess(station_totals[x], station_totals[Head(sorted)])
         THEN <<x>> \o sorted
         ELSE <<Head(sorted)>> \o InsertAscending(Tail(sorted), x, station_totals)

RECURSIVE SortByTotal(_, _)
\* list.sort(key=lambda s: station_totals[s])
SortByTotal(stations, station_totals) ==
    IF stations = <<>> THEN <<>>
    ELSE LET n == Len(stations)
         IN  InsertAscending(SortByTotal(SubSeq(stations, 1, n - 1), station_totals),
                             stations[n], station_totals)

RECURSIVE InsertDescendingUnstable(_, _)
\* variant: x put in front of the elements with an equal key
InsertDescendingUnstable(sorted, x) ==
    IF sorted = <<>> THEN <<x>>
    ELSE IF ~RLess(x.key, Head(sorted).key)
         THEN <<x>> \o sorted
         ELSE <<Head(sorted)>> \o InsertDescendingUnstable(Tail(sorted), x)

RECURSIVE InsertAscendingKey(_, _)
\* variant: reverse=True left out, smallest key first
InsertAscendingKey(sorted, x) ==
    IF sorted = <<>> THEN <<x>>
    ELSE IF RLess(x.key, Head(sorted).key)
         THEN <<x>> \o sorted
         ELSE <<Head(sorted)>> \o InsertAscendingKey(Tail(sorted), x)

RECURSIVE InsertDescending(_, _)
\* x (a record with a key field) put behind every element whose key is not smaller
InsertDescending(sorted, x) ==
    IF sorted = <<>> THEN <<x>>
    ELSE IF RLess(Head(sorted).key, x.key)
         THEN <<x>> \o sorted
         ELSE <<Head(sorted)>> \o InsertDescending(Tail(sorted), x)

RECURSIVE SortDescending(_)
\* list.sort(key=..., reverse=True): stable, largest key first
SortDescending(items) ==
    IF items = <<>> THEN <<>>
    ELSE LET n == Len(items)
         IN  InsertDescending(SortDescending(SubSeq(items, 1, n - 1)), items[n])

RECURSIVE Available(_, _, _, _)
\* lines 543-545, from index i of the score table on
Available(worker_station_scores, assigned_workers, station, i) ==
    IF i > Len(worker_station_scores) THEN <<>>
    ELSE LET wid == worker_station_scores[i].worker_id
         IN  IF wid \notin assigned_workers
             THEN <<[worker_id |-> wid,
                     key |-> worker_station_scores[i].scores[station]]>>
                  \o Available(worker_station_scores, assigned_workers, station, i + 1)
             ELSE Available(worker_station_scores, assigned_workers, station, i + 1)

RECURSIVE FillStations(_, _, _, _)
\* lines 542-552, "for station in stations_needing_worker" from index i on
FillStations(worker_station_scores, stations_needing_worker, i, acc) ==
    IF i > Len(stations_needing_worker) THEN acc
    ELSE LET station   == stations_needing_worker[i]
             available == Available(worker_station_scores, acc.assigned_workers,
                                    station, 1)
         IN  IF available # <<>>
             THEN LET best == Head(SortDescending(available))
                  IN  FillStations(
                          worker_station_scores, stations_needing_worker, i + 1,
                          [optimal_assignment |->
                               [acc.optimal_assignment EXCEPT
                                   ![station] = Append(@, best.worker_id)],
                           assigned_workers |->
                               acc.assigned_workers \cup {best.worker_id}])
             ELSE FillStations(worker_station_scores, stations_needing_worker,
                               i + 1, acc)

\* lines 532-552: one iteration of "for position_idx in range(...)"
FillRound(worker_station_scores, needed, acc) ==
    LET station_totals ==
            [station \in Stations |->
                ScoreTotal(worker_station_scores, station,
                           acc.optimal_assignment[station])]
        stations_needing_worker ==
            SortByTotal(StationsNeedingWorker(acc.optimal_assignment, needed, 1),
                        station_totals)
    IN  FillStations(worker_station_scores, stations_needing_worker, 1, acc)

RECURSIVE FillRounds(_, _, _, _, _)
FillRounds(worker_station_scores, needed, position_idx, rounds, acc) ==
    IF position_idx >= rounds THEN acc
    ELSE FillRounds(worker_station_scores, needed, position_idx + 1, rounds,
                    FillRound(worker_station_scores, needed, acc))

RECURSIVE Efficiencies(_, _, _, _)
\* lines 570-578, from (station_id, index i) on
Efficiencies(worker_station_scores, optimal_assignment, station_id, i) ==
    IF station_id > WSTATION THEN <<>>
    ELSE IF i > Len(optimal_assignment[station_id])
    THEN Efficiencies(worker_station_scores, optimal_assignment, station_id + 1, 1)
    ELSE LET worker_id == optimal_assignment[station_id][i]
         IN  <<[worker_id |-> worker_id,
                station   |-> station_id,
                key       |-> ScoreOf(worker_station_scores, worker_id, station_id)]>>
             \o Efficiencies(worker_station_scores, optimal_assignment,
                             station_id, i + 1)

\* the efficiency entries as the report holds them
Entry(e) == [worker_id |-> e.worker_id, station |-> e.station, efficiency |-> e.key]

\* variant: the fill starts from the assignment argument instead of empty
\* stations
find_optimal_assignment_seeded(factory_workers, num_workers, assignment) ==
    LET worker_station_scores == WorkerStationScores(factory_workers)
        needed == workers_needed_per_station(num_workers)
        filled == FillRounds(worker_station_scores, needed, 0, 1,
                             [optimal_assignment |-> assignment,
                              assigned_workers   |->
                                  {assignment[pl[1]][pl[2]] :
                                      pl \in {ql \in Stations \X (1..num_workers) :
                                                 ql[2] <= Len(assignment[ql[1]])}}])
    IN  [assignment            |-> filled.optimal_assignment,
         worker_station_scores |-> worker_station_scores]

\* returns the report (results); its assignment field is the returned
\* optimal_assignment.  The assignment argument is never read.
find_optimal_assignment(factory_workers, num_workers, assignment) ==
    LET worker_station_scores == WorkerStationScores(factory_workers)
        needed == workers_needed_per_station(num_workers)
        max_workers_any_station ==
            CHOOSE n \in {needed[s] : s \in Stations} :
                \A s \in Stations : needed[s] <= n
        filled == FillRounds(worker_station_scores, needed, 0,
                             max_workers_any_station,
                             [optimal_assignment |-> EmptyAssignment,
                              assigned_workers   |-> {}])
        optimal_assignment == filled.optimal_assignment
        station_details ==
            [station_id \in Stations |->
                [workers |-> optimal_assignment[station_id],
                 total_performance |->
                     ScoreTotal(worker_station_scores, station_id,
                                optimal_assignment[station_id]),
                 worker_count |-> Len(optimal_assignment[station_id])]]
        total_expected_performance ==
            RSum([s \in Stations |-> station_details[s].total_performance])
        total_workers ==
            Len(Concat(optimal_assignment, 1))
        avg_performance ==
            IF total_workers > 0
            THEN RDiv(total_expected_performance, R(total_workers))
            ELSE R(0)
        sorted == SortDescending(
                      Efficiencies(worker_station_scores, optimal_assignment, 1, 1))
        worker_efficiencies == [i \in 1..Len(sorted) |-> Entry(sorted[i])]
        n == Len(worker_efficiencies)
    IN  [assignment            |-> optimal_assignment,
         worker_station_scores |-> worker_station_scores,
         total_performance     |-> total_expected_performance,
         average_performance   |-> avg_performance,
         station_details       |-> station_details,
         best_workers          |-> SubSeq(worker_efficiencies, 1,
                                          IF n < 3 THEN n ELSE 3),
         worst_workers         |-> SubSeq(worker_efficiencies,
                                          IF n < 3 THEN 1 ELSE n - 2, n)]

\* ---------------------------------------------------------------- generator inputs
\* generate_true_worker / generate_task_profiles draw uniformly from real
\* ranges; the model draws from these samples of the ranges
\* (skills and fatigue_base in [1, 10], delivery_time in [2, 5],
\* fatigue_cost in [1, 10])
WorkerKinds ==
    { [skill |-> <<5, 3, 8, 2, 6, 4>>, fatigue_base |-> 3],
      [skill |-> <<2, 9, 4, 7, 3, 5>>, fatigue_base |-> 3] }

TaskProfiles ==
    { [station_id \in Stations |->
          [station_id    |-> station_id,
           delivery_time |-> <<2, 3, 4, 5, 2, 3>>[station_id],
           fatigue_cost  |-> <<1, 2, 1, 2, 1, 2>>[station_id]]] }

\* task profiles of a directly called collection run
CollectTaskProfiles ==
    TaskProfiles \cup
    { [station_id \in Stations |->
          [station_id    |-> station_id,
           delivery_time |-> <<4, 2, 5, 3, 2, 4>>[station_id],
           fatigue_cost  |-> <<2, 1, 1, 3, 2, 1>>[station_id]]] }

generate_true_worker(counter, kind) ==
    [worker_id    |-> FormatId(counter),
     skill        |-> kind.skill,
     fatigue_base |-> kind.fatigue_base]

\* ---------------------------------------------------------------- state
VARIABLES
    state,               \* FactorySchedulerUI.state
    true_workers,        \* FactorySchedulerUI.true_workers
    factory_workers,     \* FactorySchedulerUI.factory_workers
    tasks,               \* FactorySchedulerUI.tasks
    assignment,          \* FactorySchedulerUI.assignment
    cycle_history,       \* FactorySchedulerUI.cycle_history
    current_cycle_index, \* FactorySchedulerUI.current_cycle_index
    current_cycle_data,  \* FactorySchedulerUI.current_cycle_data
    final_results,       \* FactorySchedulerUI.final_results
    shared,              \* self.assignment is the object final_results['assignment']
    worker_id_counter,   \* _WORKER_ID_COUNTER
    terminated,          \* an uncaught exception has ended the process
    runs,                \* collection runs started so far
    run,                 \* the frame of a directly called collection run
    call                 \* a direct call of an assignment function and its result

vars == <<state, true_workers, factory_workers, tasks, assignment, cycle_history,
          current_cycle_index, current_cycle_data, final_results, shared,
          worker_id_counter, terminated, runs, run, call>>

None == [none |-> TRUE]

NoRun == CollectorEntry(<<>>, EmptyAssignment)

NoCall == [op |-> "none"]

\* ---------------------------------------------------------------- the UI
\* FactorySchedulerUI.__init__
UIInit ==
    /\ state = "hiring"
    /\ true_workers = <<>>
    /\ factory_workers = <<>>
    /\ tasks \in TaskProfiles
    /\ assignment = EmptyAssignment
    /\ cycle_history = <<>>
    /\ current_cycle_index = 0
    /\ current_cycle_data = None
    /\ final_results = None
    /\ shared = FALSE
    /\ worker_id_counter = 1
    /\ terminated = FALSE
    /\ runs = 0
    /\ run = NoRun
    /\ call = NoCall

\* the station a hire appends to
HireStation(worker_count) == ((worker_count - 1) % WSTATION) + 1

\* left click on the hire button (handle_events 566-583, hire_worker 79-90)
Hire ==
    /\ ~terminated
    /\ state \in {"hiring", "completed"}
    /\ worker_id_counter <= MaxHires
    /\ \E kind \in WorkerKinds :
          LET true_worker  == generate_true_worker(worker_id_counter, kind)
              worker_count == Len(true_workers) + 1
              station      == HireStation(worker_count)
          IN  /\ true_workers' = Append(true_workers, true_worker)
              /\ factory_workers' =
                     Append(factory_workers, NewFactoryWorker(true_worker.worker_id))
              /\ assignment' =
                     [assignment EXCEPT ![station] = Append(@, true_worker.worker_id)]
              /\ final_results' =
                     IF shared
                     THEN [final_results EXCEPT
                              !.assignment[station] =
                                  Append(@, true_worker.worker_id),
                              !.station_details[station].workers =
                                  Append(@, true_worker.worker_id)]
                     ELSE final_results
    /\ worker_id_counter' = worker_id_counter + 1
    /\ UNCHANGED <<state, tasks, cycle_history, current_cycle_index,
                   current_cycle_data, shared, terminated, runs, run, call>>

\* [w for w in workers if w.worker_id != worker_id]
RECURSIVE DropWorker(_, _)
DropWorker(workers, worker_id) ==
    IF workers = <<>> THEN <<>>
    ELSE IF Head(workers).worker_id = worker_id
         THEN DropWorker(Tail(workers), worker_id)
         ELSE <<Head(workers)>> \o DropWorker(Tail(workers), worker_id)

\* right click on a drawn worker (handle_events 592-595, get_worker_at_mouse
\* 525-554, fire_worker 92-116)
Fire ==
    /\ ~terminated
    /\ \E worker_id \in UNION {Range(assignment[s]) : s \in Stations} :
          /\ true_workers' = DropWorker(true_workers, worker_id)
          /\ factory_workers' = DropWorker(factory_workers, worker_id)
          /\ assignment' = fire_worker_from_assignment(worker_id, assignment)
    /\ shared' = FALSE
    /\ IF state = "completed"
       THEN /\ final_results' = None
            /\ cycle_history' = <<>>
            /\ current_cycle_index' = 0
            /\ current_cycle_data' = None
       ELSE UNCHANGED <<final_results, cycle_history, current_cycle_index,
                        current_cycle_data>>
    /\ UNCHANGED <<state, tasks, worker_id_counter, terminated, runs, run, call>>

\* left click on the start button (handle_events 566-586,
\* start_optimization 118-146)
Start ==
    /\ ~terminated
    /\ state \in {"hiring", "completed"}
    /\ runs < MaxRuns
    /\ IF Len(true_workers) = 0
       THEN UNCHANGED vars
       ELSE LET done == systematic_data_collection_ui(
                            true_workers, factory_workers, tasks, assignment)
            IN  /\ state' = "running"
                /\ cycle_history' = done.events
                /\ current_cycle_index' = 0
                /\ factory_workers' = done.factory_workers
                /\ runs' = runs + 1
                /\ IF done.pc = "raised"
                   THEN /\ terminated' = TRUE
                        /\ UNCHANGED <<final_results, current_cycle_data, shared>>
                   ELSE /\ final_results' =
                               find_optimal_assignment(
                                   done.factory_workers, Len(true_workers),
                                   assignment)
                        /\ current_cycle_data' =
                               IF done.events # <<>> THEN done.events[1]
                               ELSE current_cycle_data
                        /\ shared' = FALSE
                        /\ UNCHANGED terminated
                /\ UNCHANGED <<true_workers, tasks, assignment,
                               worker_id_counter, run, call>>

\* variant: the run completed one event early,
\* "current_cycle_index < len(self.cycle_history) - 2"
NextCycleEarly ==
    /\ ~terminated
    /\ state = "running"
    /\ IF current_cycle_index < Len(cycle_history) - 2
       THEN /\ current_cycle_index' = current_cycle_index + 1
            /\ current_cycle_data' = cycle_history[current_cycle_index + 2]
            /\ UNCHANGED <<state, assignment, shared, terminated>>
       ELSE IF final_results = None
       THEN /\ state' = "completed"
            /\ terminated' = TRUE
            /\ UNCHANGED <<current_cycle_index, current_cycle_data, assignment,
                           shared>>
       ELSE /\ state' = "completed"
            /\ assignment' = final_results.assignment
            /\ shared' = TRUE
            /\ UNCHANGED <<current_cycle_index, current_cycle_data, terminated>>
    /\ UNCHANGED <<true_workers, factory_workers, tasks, cycle_history,
                   final_results, worker_id_counter, runs, run, call>>

\* left click on the next-cycle button (handle_events 588-590, next_cycle 148-157)
NextCycle ==
    /\ ~terminated
    /\ state = "running"
    /\ IF current_cycle_index < Len(cycle_history) - 1
       THEN /\ current_cycle_index' = current_cycle_index + 1
            /\ current_cycle_data' = cycle_history[current_cycle_index + 2]
            /\ UNCHANGED <<state, assignment, shared, terminated>>
       ELSE IF final_results = None
       THEN /\ state' = "completed"
            /\ terminated' = TRUE
            /\ UNCHANGED <<current_cycle_index, current_cycle_data, assignment,
                           shared>>
       ELSE /\ state' = "completed"
            /\ assignment' = final_results.assignment
            /\ shared' = TRUE
            /\ UNCHANGED <<current_cycle_index, current_cycle_data, terminated>>
    /\ UNCHANGED <<true_workers, factory_workers, tasks, cycle_history,
                   final_results, worker_id_counter, runs, run, call>>

Next == Hire \/ Fire \/ Start \/ NextCycle

Spec == UIInit /\ [][Next]_vars

\* ---------------------------------------------------------------- a directly called collection run
UIIdle ==
    /\ state = "hiring"
    /\ factory_workers = <<>>
    /\ assignment = EmptyAssignment
    /\ cycle_history = <<>>
    /\ current_cycle_index = 0
    /\ current_cycle_data = None
    /\ final_results = None
    /\ shared = FALSE
    /\ terminated = FALSE

WorkerIds(n) == [i \in 1..n |-> FormatId(i)]

\* n workers hired from a reset id counter, placed round-robin, no observation yet
CollectInit ==
    /\ UIIdle
    /\ tasks \in CollectTaskProfiles
    /\ \E n \in 1..MaxCollectWorkers :
          /\ worker_id_counter = n + 1
          /\ \E kinds \in [1..n -> WorkerKinds] :
                true_workers = [i \in 1..n |-> generate_true_worker(i, kinds[i])]
          /\ run = CollectorEntry(
                       [i \in 1..n |-> NewFactoryWorker(FormatId(i))],
                       create_initial_assignment_sequential(WorkerIds(n)))
    /\ runs = 1
    /\ call = NoCall

CollectFrame == <<state, true_workers, factory_workers, tasks, assignment,
                  cycle_history, current_cycle_index, current_cycle_data,
                  final_results, shared, worker_id_counter, terminated, call>>

CollectBase ==
    /\ run.pc = "base"
    /\ run' = BasePhase(run, true_workers, tasks)
    /\ UNCHANGED <<CollectFrame, runs>>

CollectPosition ==
    /\ run.pc = "position"
    /\ run' = PositionHead(run)
    /\ UNCHANGED <<CollectFrame, runs>>

CollectRotation ==
    /\ run.pc = "rotation"
    /\ run' = RotationStep(run, true_workers, tasks)
    /\ UNCHANGED <<CollectFrame, runs>>

CollectOptimize ==
    /\ run.pc = "optimize"
    /\ run' = OptimizeStep(run)
    /\ UNCHANGED <<CollectFrame, runs>>

CollectPost ==
    /\ run.pc = "post"
    /\ run' = PostPositions(run, true_workers, tasks)
    /\ UNCHANGED <<CollectFrame, runs>>

CollectGap ==
    /\ run.pc = "gap"
    /\ run' = GapProbe(run, true_workers, tasks)
    /\ UNCHANGED <<CollectFrame, runs>>

\* the caller starts another run on the same worker records, handing in the
\* assignment the previous run returned or the solver's assignment; its
\* callback goes on appending to the list of events it has retained
CollectAgain ==
    /\ run.pc = "done"
    /\ runs < MaxRuns
    /\ \E initial_assign \in
            { run.current_assignment,
              find_optimal_assignment(run.factory_workers, Len(true_workers),
                                      run.current_assignment).assignment } :
          run' = [CollectorEntry(run.factory_workers, initial_assign)
                      EXCEPT !.events = run.events]
    /\ runs' = runs + 1
    /\ UNCHANGED CollectFrame

CollectNext ==
    \/ CollectBase
    \/ CollectPosition
    \/ CollectRotation
    \/ CollectOptimize
    \/ CollectPost
    \/ CollectGap
    \/ CollectAgain

SpecCollect == CollectInit /\ [][CollectNext]_vars

\* ---------------------------------------------------------------- collection runs over several rows
\* the kinds of n workers: the two kinds alternating, either first, and every
\* third worker of the other kind
RowKinds(n) ==
    LET a == CHOOSE k \in WorkerKinds : k.skill[1] = 5
        b == CHOOSE k \in WorkerKinds : k.skill[1] = 2
    IN  { [i \in 1..n |-> IF i % 2 = 1 THEN a ELSE b],
          [i \in 1..n |-> IF i % 2 = 1 THEN b ELSE a],
          [i \in 1..n |-> IF i % 3 = 0 THEN a ELSE b] }

RowsInit ==
    /\ UIIdle
    /\ tasks \in CollectTaskProfiles
    /\ \E n \in 1..MaxRowWorkers :
          /\ worker_id_counter = n + 1
          /\ \E kinds \in RowKinds(n) :
                true_workers = [i \in 1..n |-> generate_true_worker(i, kinds[i])]
          /\ run = CollectorEntry(
                       [i \in 1..n |-> NewFactoryWorker(FormatId(i))],
                       create_initial_assignment_sequential(WorkerIds(n)))
    /\ runs = 1
    /\ call = NoCall

\* after a returned run the caller installs the solver's assignment, hires one
\* more worker as hire_worker does and starts another run
CollectHireAgain ==
    /\ run.pc = "done"
    /\ runs < MaxRuns
    /\ Len(true_workers) <= MaxRowWorkers
    /\ \E kind \in WorkerKinds :
          LET true_worker == generate_true_worker(worker_id_counter, kind)
              station     == HireStation(Len(true_workers) + 1)
              solved      == find_optimal_assignment(
                                 run.factory_workers, Len(true_workers),
                                 run.current_assignment).assignment
          IN  /\ true_workers' = Append(true_workers, true_worker)
              /\ run' = [CollectorEntry(
                             Append(run.factory_workers,
                                    NewFactoryWorker(true_worker.worker_id)),
                             [solved EXCEPT
                                 ![station] = Append(@, true_worker.worker_id)])
                         EXCEPT !.events = run.events]
    /\ worker_id_counter' = worker_id_counter + 1
    /\ runs' = runs + 1
    /\ UNCHANGED <<state, factory_workers, tasks, assignment, cycle_history,
                   current_cycle_index, current_cycle_data, final_results,
                   shared, terminated, call>>

RowsNext == CollectNext \/ CollectHireAgain

SpecRows == RowsInit /\ [][RowsNext]_vars

\* ---------------------------------------------------------------- directly called assignment functions
Injective(f) == \A a, b \in DOMAIN f : f[a] = f[b] => a = b

\* every ordering of the ids 0001..000n
IdLists(n) ==
    { [i \in 1..n |-> FormatId(p[i])] : p \in {q \in [1..n -> 1..n] : Injective(q)} }

\* every way to cut a list of n ids into WSTATION consecutive pieces
Cuts(n) ==
    { c \in [1..(WSTATION - 1) -> 0..n] :
          \A i \in 1..(WSTATION - 2) : c[i] <= c[i + 1] }

Split(ids, c) ==
    [station \in Stations |->
        SubSeq(ids,
               (IF station = 1 THEN 0 ELSE c[station - 1]) + 1,
               IF station = WSTATION THEN Len(ids) ELSE c[station])]

\* every station structure over the ids 0001..000n: in every order of the ids
\* for the short lists, in id order for the longer ones
Assignments(n) ==
    { Split(ids, c) : ids \in (IF n <= MaxPermuted THEN IdLists(n) ELSE {WorkerIds(n)}),
                      c \in Cuts(n) }

FnInit ==
    /\ UIIdle
    /\ tasks \in TaskProfiles
    /\ true_workers = <<>>
    /\ worker_id_counter = 1
    /\ runs = 0
    /\ run = NoRun
    /\ call = NoCall

FnFrame == <<state, true_workers, factory_workers, tasks, assignment,
             cycle_history, current_cycle_index, current_cycle_data,
             final_results, shared, worker_id_counter, terminated, runs, run>>

CallCreate ==
    /\ call.op = "none"
    /\ \E n \in 0..(MaxFnWorkers + WSTATION) :
          call' = [op |-> "create",
                   worker_ids |-> WorkerIds(n),
                   result |-> create_initial_assignment_sequential(WorkerIds(n))]
    /\ UNCHANGED FnFrame

CallCreateAny ==
    /\ call.op = "none"
    /\ \E n \in 0..MaxPermuted :
          \E ids \in IdLists(n) :
             call' = [op |-> "create",
                      worker_ids |-> ids,
                      result |-> create_initial_assignment_sequential(ids)]
    /\ UNCHANGED FnFrame

CallFire ==
    /\ call.op = "none"
    /\ \E n \in 0..MaxFnWorkers :
          \E a \in Assignments(n), x \in 1..(n + 1) :
             call' = [op |-> "fire",
                      worker_id |-> FormatId(x),
                      assignment |-> a,
                      result |-> fire_worker_from_assignment(FormatId(x), a)]
    /\ UNCHANGED FnFrame

\* a round-robin assignment that collection or the solver has rearranged is
\* fired from as well: more than one worker per station
CallFireSequential ==
    /\ call.op = "none"
    /\ \E n \in 1..(MaxFnWorkers + WSTATION) :
          \E x \in 1..n :
             call' = [op |-> "fire",
                      worker_id |-> FormatId(x),
                      assignment |-> create_initial_assignment_sequential(WorkerIds(n)),
                      result |-> fire_worker_from_assignment(
                                     FormatId(x),
                                     create_initial_assignment_sequential(WorkerIds(n)))]
    /\ UNCHANGED FnFrame

CallQuota ==
    /\ call.op = "none"
    /\ \E num_workers \in 0..MaxQuotaN :
          call' = [op |-> "quota",
                   num_workers |-> num_workers,
                   result |-> workers_needed_per_station(num_workers)]
    /\ UNCHANGED FnFrame

\* learned models handed to a directly called solver or optimizer: one
\* observation per station, and a model with a two-observation station and a
\* station without data; the two tie at stations 3 and 5
LearnedKinds ==
    { [s \in Stations |-> << <<R(150)>>, <<R(90)>>, <<R(120)>>, <<R(100)>>,
                             <<R(80)>>, <<R(110)>> >>[s]],
      [s \in Stations |-> << <<R(90)>>, <<R(150)>>, <<R(120)>>, <<R(100), R(160)>>,
                             <<R(80)>>, <<>> >>[s]] }

LearnedWorkers(n, kinds) ==
    [i \in 1..n |-> [worker_id |-> FormatId(i), performance_percentages |-> kinds[i]]]

Reversed(seq) == [i \in 1..Len(seq) |-> seq[Len(seq) + 1 - i]]

FnNext == CallCreate \/ CallCreateAny \/ CallFire \/ CallFireSequential \/ CallQuota

SpecFn == FnInit /\ [][FnNext]_vars

\* ---------------------------------------------------------------- directly called solver and optimizer
\* the caller holds n factory workers with learned models and no collection
\* run in progress
LearnedInit ==
    /\ state = "hiring"
    /\ tasks \in TaskProfiles
    /\ true_workers = <<>>
    /\ \E n \in 0..MaxSolveWorkers :
          /\ worker_id_counter = n + 1
          /\ \E kinds \in [1..n -> LearnedKinds] :
                factory_workers = LearnedWorkers(n, kinds)
    /\ assignment = EmptyAssignment
    /\ cycle_history = <<>>
    /\ current_cycle_index = 0
    /\ current_cycle_data = None
    /\ final_results = None
    /\ shared = FALSE
    /\ terminated = FALSE
    /\ runs = 0
    /\ run = NoRun
    /\ call = NoCall

CallSolve ==
    /\ call.op = "none"
    /\ \E num_workers \in {Len(factory_workers), Len(factory_workers) + 1},
          a \in {EmptyAssignment,
                 create_initial_assignment_sequential(WorkerIds(Len(factory_workers)))} :
          call' = [op |-> "solve",
                   num_workers |-> num_workers,
                   assignment |-> a,
                   result |-> find_optimal_assignment(factory_workers, num_workers, a)]
    /\ UNCHANGED FnFrame

CallOptimize ==
    /\ call.op = "none"
    /\ \E position_idx \in 0..1,
          ids \in {WorkerIds(Len(factory_workers)),
                   Reversed(WorkerIds(Len(factory_workers)))} :
          call' = [op |-> "optimize",
                   current_assignment |-> create_initial_assignment_sequential(ids),
                   position_idx |-> position_idx,
                   \* the argument after the call: optimize_position writes
                   \* to copy.deepcopy(current_assignment) only
                   current_assignment_after |->
                       create_initial_assignment_sequential(ids),
                   result |-> optimize_position(
                                  factory_workers,
                                  create_initial_assignment_sequential(ids),
                                  position_idx)]
    /\ UNCHANGED FnFrame

LearnedNext == CallSolve \/ CallOptimize

SpecLearned == LearnedInit /\ [][LearnedNext]_vars

\* ================================================================ claims
Completeness(st, i) == get_data_completeness(st.factory_workers[i])

AllComplete(st) ==
    \A i \in 1..Len(st.factory_workers) : Completeness(st, i) = R(100)

Observations(st, i, s) == st.factory_workers[i].performance_percentages[s]

\* C1: in a collection run over workers that have both records, no step lowers
\* a worker's data completeness, and when the run has returned every worker's
\* completeness is 100%.
C1_CompletenessGrowsToFull ==
    /\ [][\A i \in 1..Len(run.factory_workers) :
              ~RLess(Completeness(run', i), Completeness(run, i))]_vars
    /\ [](run.pc = "done" => AllComplete(run))

\* a first run has returned after rotating a full row and gap-filling the
\* workers of a partial row
C1_Witness ==
    /\ run.pc = "done"
    /\ runs = 1
    /\ Len(run.factory_workers) = WSTATION + 1
    /\ run.workers_to_process # <<>>
    /\ AllComplete(run)

\* C2: in a run started on a round-robin assignment of workers without
\* observations no worker x station pair ever holds more than one observation,
\* and when the run has returned every pair holds exactly one.
C2_OneObservationPerPair ==
    runs = 1 =>
        \A i \in 1..Len(run.factory_workers) : \A s \in Stations :
            /\ Len(Observations(run, i, s)) <= 1
            /\ run.pc = "done" => Len(Observations(run, i, s)) = 1

\* a first run has returned after both the rotation phase and the gap filler
\* recorded observations
C2_Witness ==
    /\ run.pc = "done"
    /\ runs = 1
    /\ \E e \in Range(run.events) :
          e.phase = "rotation" /\ DOMAIN e.performance_comparison # {}
    /\ \E e \in Range(run.events) : e.phase = "incomplete_fix"
    /\ \A i \in 1..Len(run.factory_workers) : \A s \in Stations :
          Len(Observations(run, i, s)) = 1

\* C3 (as claimed): no step of a collection run, a run started again on workers
\* that already hold observations included, appends an observation to a
\* worker x station pair that already has one.
C3_NoAppendToKnownPair ==
    [][\A i \in 1..Len(run.factory_workers) : \A s \in Stations :
           Len(Observations(run, i, s)) >= 1 =>
               Observations(run', i, s) = Observations(run, i, s)]_vars

AssignedIds(a) == Concat(a, 1)

\* C4 (as claimed): after any sequence of hire, fire, start and advance-cycle
\* the two registries hold the same ids, and the UI's assignment holds each of
\* them exactly once and no other (fired) id.
C4_AssignmentHoldsActiveWorkers ==
    /\ DictKeys(true_workers) = DictKeys(factory_workers)
    /\ Range(AssignedIds(assignment)) = DictKeys(true_workers)
    /\ Len(AssignedIds(assignment)) = Len(true_workers)

\* C5 (as claimed): in every state reachable by hire, fire, start and
\* advance-cycle the station sizes of the UI's assignment differ by at most 1.
C5_StationSizesBalanced ==
    \A s, o \in Stations : Len(assignment[s]) - Len(assignment[o]) <= 1

\* the places <<station, position>> (position from 0) of an assignment
Places(a) ==
    UNION { {<<s, p>> : p \in 0..(Len(a[s]) - 1)} : s \in Stations }

At(a, pl) == a[pl[1]][pl[2] + 1]

Held(a) == {At(a, pl) : pl \in Places(a)}

Size(a) == Cardinality(Places(a))

\* station-ascending, within-station order of the places
StationMajor(pl, ql) == pl[1] < ql[1] \/ (pl[1] = ql[1] /\ pl[2] < ql[2])

\* position by position, stations ascending within a position
PositionMajor(pl, ql) == pl[2] < ql[2] \/ (pl[2] = ql[2] /\ pl[1] < ql[1])

\* the number of ids other than x that station-major reading of a meets
\* before place pl
RankWithout(a, x, pl) ==
    Cardinality({ql \in Places(a) : StationMajor(ql, pl) /\ At(a, ql) # x})

\* C6: firing x from an assignment that contains it yields the n-1 other ids,
\* each once, the k-th of them (station-major order of the argument, x dropped)
\* at station (k mod S) + 1, position k div S.
C6_FireRedistributesRoundRobin ==
    (call.op = "fire" /\ call.worker_id \in Held(call.assignment)) =>
        /\ Size(call.result) = Size(call.assignment) - 1
        /\ Held(call.result) = Held(call.assignment) \ {call.worker_id}
        /\ \A pl \in Places(call.assignment) :
              At(call.assignment, pl) # call.worker_id =>
                  LET k == RankWithout(call.assignment, call.worker_id, pl)
                  IN  /\ <<(k % WSTATION) + 1, k \div WSTATION>>
                             \in Places(call.result)
                      /\ At(call.result, <<(k % WSTATION) + 1, k \div WSTATION>>)
                             = At(call.assignment, pl)

\* a fire from an assignment whose stations are unevenly filled
C6_Witness ==
    /\ call.op = "fire"
    /\ call.worker_id \in Held(call.assignment)
    /\ Size(call.assignment) = 4
    /\ Len(call.assignment[2]) = 3
    /\ call.assignment[2][2] = call.worker_id
    /\ Len(call.result[1]) = 1 /\ Len(call.result[3]) = 1

\* the reading orders of the places, by name
Before(reading, pl, ql) ==
    IF reading = "station-major" THEN StationMajor(pl, ql) ELSE PositionMajor(pl, ql)

\* two remaining ids that station-major reading of a meets in some order are
\* met in that order by the given reading of result
OrderKept(a, result, x, reading) ==
    \A pl, ql \in Places(a) :
        (At(a, pl) # x /\ At(a, ql) # x /\ StationMajor(pl, ql)) =>
            \E pr, qr \in Places(result) :
                /\ At(result, pr) = At(a, pl)
                /\ At(result, qr) = At(a, ql)
                /\ Before(reading, pr, qr)

\* C7 (as claimed): station-major reading of the result of a fire lists the
\* remaining workers in the relative order station-major reading of the
\* argument had them in.
C7_FireKeepsStationMajorOrder ==
    call.op = "fire" =>
        OrderKept(call.assignment, call.result, call.worker_id, "station-major")

\* C7 (amended): that holds when at most S workers remain; in every case
\* position-major reading of the result keeps the order.
C7_FireKeepsOrderUpToOneRow ==
    call.op = "fire" =>
        /\ Size(call.result) <= WSTATION =>
               OrderKept(call.assignment, call.result, call.worker_id, "station-major")
        /\ OrderKept(call.assignment, call.result, call.worker_id, "position-major")

\* a fire that leaves exactly one full row
C7_Witness ==
    /\ call.op = "fire"
    /\ call.worker_id \in Held(call.assignment)
    /\ Size(call.result) = WSTATION
    /\ \A s \in Stations : Len(call.result[s]) = 1

\* C8: create_initial_assignment_sequential puts the id at index k at station
\* (k mod S) + 1 (position k div S), every id once, the station counts differ
\* by at most 1, and no station holds more than a lower-numbered one.
C8_CreatePlacesRoundRobin ==
    call.op = "create" =>
        /\ \A k \in 0..(Len(call.worker_ids) - 1) :
              /\ <<(k % WSTATION) + 1, k \div WSTATION>> \in Places(call.result)
              /\ At(call.result, <<(k % WSTATION) + 1, k \div WSTATION>>)
                     = call.worker_ids[k + 1]
        /\ Size(call.result) = Len(call.worker_ids)
        /\ \A s, o \in Stations :
              /\ Len(call.result[s]) - Len(call.result[o]) <= 1
              /\ s < o => Len(call.result[s]) >= Len(call.result[o])

\* a placement with a full row and a partial second row
C8_Witness ==
    /\ call.op = "create"
    /\ Len(call.worker_ids) = WSTATION + 2
    /\ Len(call.result[2]) = 2
    /\ Len(call.result[3]) = 1

\* the index (from 0) at which the given reading of a meets id
ReadIndex(a, id, reading) ==
    Cardinality({ql \in Places(a) :
                    \E pl \in Places(a) : At(a, pl) = id /\ Before(reading, ql, pl)})

\* C9 (as claimed): concatenating the stations of the created assignment in
\* ascending order gives the ids in hire order.
C9_CreateConcatIsHireOrder ==
    call.op = "create" =>
        \A i \in 1..Len(call.worker_ids) :
            ReadIndex(call.result, call.worker_ids[i], "station-major") = i - 1

\* C9 (amended): that holds for n <= S; for every n reading position by
\* position gives the ids in hire order.
C9_CreateReadsBackInHireOrder ==
    call.op = "create" =>
        \A i \in 1..Len(call.worker_ids) :
            /\ Len(call.worker_ids) <= WSTATION =>
                   ReadIndex(call.result, call.worker_ids[i], "station-major") = i - 1
            /\ ReadIndex(call.result, call.worker_ids[i], "position-major") = i - 1

\* a placement of more than S ids: station 1 holds the first and the last id
C9_Witness ==
    /\ call.op = "create"
    /\ Len(call.worker_ids) = WSTATION + 1
    /\ call.result[1] = <<call.worker_ids[1], call.worker_ids[WSTATION + 1]>>

\* C10: the quotas are N div S + 1 for stations 1..(N mod S) and N div S for
\* the others; they sum to N, and exactly N mod S stations, the lowest-numbered
\* ones, get one worker more than the floor.
C10_QuotasSumToN ==
    call.op = "quota" =>
        LET N     == call.num_workers
            quota == call.result
            more  == {s \in Stations : quota[s] = N \div WSTATION + 1}
        IN  /\ \A s \in Stations :
                  quota[s] = IF s <= N % WSTATION THEN N \div WSTATION + 1
                             ELSE N \div WSTATION
            /\ quota[1] + quota[2] + quota[3] + quota[4] + quota[5] + quota[6] = N
            /\ more = 1..(N % WSTATION)
            /\ Cardinality(more) = N % WSTATION

\* quotas of a count that leaves a remainder over full rows
C10_Witness ==
    /\ call.op = "quota"
    /\ call.num_workers = 2 * WSTATION + 2
    /\ call.result[2] = 3
    /\ call.result[3] = 2

\* ---------------------------------------------------------------- solver and optimizer claims
\* the learned score of a worker for a station
Score(workers, worker_id, station) ==
    get_average_percentage(DictGet(workers, worker_id), station)

\* the station's quota for a worker count
Quota(N, s) == N \div WSTATION + (IF s <= N % WSTATION THEN 1 ELSE 0)

\* C11: called with the number of factory workers, the solver places every
\* worker exactly once and fills every station to exactly its quota; with no
\* worker every station stays empty.
C11_SolverFillsQuotas ==
    (call.op = "solve" /\ call.num_workers = Len(factory_workers)) =>
        LET N == Len(factory_workers)
            a == call.result.assignment
        IN  /\ \A i \in 1..N :
                  Cardinality({pl \in Places(a) :
                                  At(a, pl) = factory_workers[i].worker_id}) = 1
            /\ Size(a) = N
            /\ \A s \in Stations : Len(a[s]) = Quota(N, s)
            /\ N = 0 => a = EmptyAssignment

\* seven workers: station 1 gets two, the others one
C11_Witness ==
    /\ call.op = "solve"
    /\ Len(factory_workers) = WSTATION + 1
    /\ call.num_workers = WSTATION + 1
    /\ Len(call.result.assignment[1]) = 2
    /\ Len(call.result.assignment[WSTATION]) = 1

\* the score total station s holds at the start of fill round r
RoundTotal(workers, a, s, r) ==
    RSum([k \in 1..(IF r < Len(a[s]) THEN r ELSE Len(a[s])) |->
             Score(workers, a[s][k], s)])

\* station o is processed before station s in round r
ProcessedBefore(workers, a, r, o, s) ==
    LET to == RoundTotal(workers, a, o, r)
        ts == RoundTotal(workers, a, s, r)
    IN  RLess(to, ts) \/ (to = ts /\ o < s)

\* the workers placed before station s is served in round r
PlacedBefore(workers, a, r, s) ==
    {At(a, ql) : ql \in {pl \in Places(a) :
                            \/ pl[2] < r
                            \/ pl[2] = r /\ ProcessedBefore(workers, a, r, pl[1], s)}}

\* C12: the worker a station receives in round r is, among the workers not
\* placed in an earlier round nor in round r at a station with a smaller total
\* at the start of the round (equal totals: a smaller index), one with the
\* highest score for the station, and of those the first in factory-worker
\* list order; a station left under its quota means no worker was left.
C12_SolverRoundOrder ==
    call.op = "solve" =>
        LET a == call.result.assignment
        IN  /\ \A pl \in Places(a) :
                  LET s      == pl[1]
                      w      == At(a, pl)
                      placed == PlacedBefore(factory_workers, a, pl[2], s)
                  IN  /\ w \in DictKeys(factory_workers) \ placed
                      /\ \A i \in 1..Len(factory_workers) :
                            LET v == factory_workers[i].worker_id
                            IN  v \notin placed =>
                                   /\ ~RLess(Score(factory_workers, w, s),
                                             Score(factory_workers, v, s))
                                   /\ Score(factory_workers, v, s)
                                          = Score(factory_workers, w, s)
                                        => DictIndex(factory_workers, w) <= i
            /\ \A s \in Stations :
                  Len(a[s]) < Quota(call.num_workers, s) =>
                      Size(a) = Len(factory_workers)

\* a second round in which station 2, holding the smaller total, is served
\* before station 1 and takes the last worker
C12_Witness ==
    /\ call.op = "solve"
    /\ call.num_workers = Len(factory_workers) + 1
    /\ Len(call.result.assignment[1]) = 1
    /\ Len(call.result.assignment[2]) = 2
    /\ RLess(RoundTotal(factory_workers, call.result.assignment, 2, 1),
             RoundTotal(factory_workers, call.result.assignment, 1, 1))

\* the stations of the cohort at position p, and the station a cohort worker
\* comes from
CohortStations(a, p) == {s \in Stations : p < Len(a[s])}

CohortStation(a, p, w) == CHOOSE s \in CohortStations(a, p) : a[s][p + 1] = w

\* C13: for each station of the cohort, ascending, the optimizer puts at
\* position p the cohort worker not chosen for a lower station with the highest
\* learned average for the station, of equal ones the one from the lowest
\* station; the details name the old worker, the new worker and its score.
C13_OptimizerPicksBestInOrder ==
    (call.op = "optimize" /\ ~call.result.raised) =>
        LET cur == call.current_assignment
            p   == call.position_idx
            new == call.result.assignment
            det == call.result.details
        IN  /\ DOMAIN det = CohortStations(cur, p)
            /\ \A s \in CohortStations(cur, p) :
                  LET chosen == {new[o][p + 1] :
                                    o \in {x \in CohortStations(cur, p) : x < s}}
                      w      == new[s][p + 1]
                  IN  /\ w \in {cur[o][p + 1] : o \in CohortStations(cur, p)} \ chosen
                      /\ \A o \in CohortStations(cur, p) :
                            cur[o][p + 1] \notin chosen =>
                               /\ ~RLess(Score(factory_workers, w, s),
                                         Score(factory_workers, cur[o][p + 1], s))
                               /\ Score(factory_workers, cur[o][p + 1], s)
                                      = Score(factory_workers, w, s)
                                    => CohortStation(cur, p, w) <= o
                      /\ det[s] = [old_worker |-> cur[s][p + 1],
                                   new_worker |-> w,
                                   score      |-> Score(factory_workers, w, s)]

\* a cohort of a full row in which a station changes its worker although
\* another cohort worker ties with the winner
C13_Witness ==
    /\ call.op = "optimize"
    /\ call.position_idx = 0
    /\ CohortStations(call.current_assignment, 0) = Stations
    /\ \E s \in Stations :
          /\ call.result.details[s].new_worker # call.result.details[s].old_worker
          /\ \E o \in Stations :
                /\ call.current_assignment[o][1] # call.result.details[s].new_worker
                /\ Score(factory_workers, call.current_assignment[o][1], s)
                       = call.result.details[s].score

PlacedScores(workers, a, s) ==
    [k \in 1..Len(a[s]) |-> Score(workers, a[s][k], s)]

\* the report entries of all placed pairs
PlacedEntries(workers, a) ==
    {[worker_id |-> At(a, pl), station |-> pl[1],
      efficiency |-> Score(workers, At(a, pl), pl[1])] : pl \in Places(a)}

Descending(entries) ==
    \A i \in 1..(Len(entries) - 1) :
        ~RLess(entries[i].efficiency, entries[i + 1].efficiency)

\* C18: total performance is the sum of the placed pairs' scores, the average
\* is the total over the number of placed workers (0 for none); best_workers
\* are the 3 highest-scoring placed pairs and worst_workers the 3 lowest, both
\* in descending order; with 1 to 5 placed workers the two share an entry and
\* with at most 3 they are equal.
C18_SolverReport ==
    call.op = "solve" =>
        LET a     == call.result.assignment
            n     == Size(a)
            all   == PlacedEntries(factory_workers, a)
            best  == call.result.best_workers
            worst == call.result.worst_workers
            total == RSum([s \in Stations |->
                              RSum(PlacedScores(factory_workers, a, s))])
        IN  /\ call.result.total_performance = total
            /\ call.result.average_performance =
                   IF n > 0 THEN RDiv(total, R(n)) ELSE R(0)
            /\ Len(best) = (IF n < 3 THEN n ELSE 3)
            /\ Len(worst) = Len(best)
            /\ Range(best) \subseteq all /\ Cardinality(Range(best)) = Len(best)
            /\ Range(worst) \subseteq all /\ Cardinality(Range(worst)) = Len(worst)
            /\ Descending(best) /\ Descending(worst)
            /\ \A e \in all \ Range(best) :
                  ~RLess(best[Len(best)].efficiency, e.efficiency)
            /\ \A e \in all \ Range(worst) :
                  ~RLess(e.efficiency, worst[1].efficiency)
            /\ (1 <= n /\ n < 6) => Range(best) \cap Range(worst) # {}
            /\ n <= 3 => best = worst

\* five placed workers: the third entry of the sorted list is on both boards
C18_Witness ==
    /\ call.op = "solve"
    /\ Size(call.result.assignment) = 5
    /\ call.result.best_workers[3] = call.result.worst_workers[1]
    /\ RLess(call.result.worst_workers[3].efficiency,
             call.result.best_workers[1].efficiency)

\* ---------------------------------------------------------------- collector claims
\* the worker x station pairs without an observation
MissingPairs(st) ==
    {pr \in (1..Len(st.factory_workers)) \X Stations :
        Observations(st, pr[1], pr[2]) = <<>>}

\* the first of them: factory-worker list order, then ascending station
FirstMissing(st) ==
    CHOOSE pr \in MissingPairs(st) :
        \A qr \in MissingPairs(st) :
            pr[1] < qr[1] \/ (pr[1] = qr[1] /\ pr[2] <= qr[2])

\* individualPerformance / base * 100 + 100, a flat 100 for a zero base
GapPercentage(st, i, s) ==
    LET base == simulate_station_performance(true_workers, tasks,
                                             st.current_assignment)[s]
        individual ==
            calculate_performance(
                DictGet(true_workers, st.factory_workers[i].worker_id), s,
                tasks[s].delivery_time, tasks[s].fatigue_cost)
    IN  IF base = R(0) THEN R(100)
        ELSE RAdd(RMul(RDiv(individual, base), R(100)), R(100))

\* C14: every probe of the gap filler records, for the first worker x station
\* pair without an observation (list order, then ascending station), exactly
\* one observation: individualPerformance / base[station] * 100 + 100 with
\* base the station totals of the current assignment, which the gap filler
\* never changes, and 100 when that base is zero; no other pair changes, and
\* the event reports the pair and the value.
C14_GapFillerFormula ==
    [][run.pc = "gap" =>
          LET pr == FirstMissing(run)
              e  == run'.events[Len(run'.events)]
          IN  /\ Observations(run', pr[1], pr[2])
                     = <<GapPercentage(run, pr[1], pr[2])>>
              /\ \A qr \in (1..Len(run.factory_workers)) \X Stations :
                    qr # pr => Observations(run', qr[1], qr[2])
                                   = Observations(run, qr[1], qr[2])
              /\ run'.current_assignment = run.current_assignment
              /\ run'.gap_base_performance = run.gap_base_performance
              /\ e.phase = "incomplete_fix"
              /\ e.worker_id = run.factory_workers[pr[1]].worker_id
              /\ e.test_station = pr[2]
              /\ e.performance_comparison[pr[2]].adjusted_percentage
                     = GapPercentage(run, pr[1], pr[2])]_vars

\* a probe has recorded a value above 100 after the optimizer had changed the
\* assignment
C14_Witness ==
    /\ run.current_assignment # run.original_assignment
    /\ \E j \in 1..Len(run.events) :
          /\ run.events[j].phase = "incomplete_fix"
          /\ RLess(R(100),
                   run.events[j].performance_comparison[run.events[j].test_station]
                       .adjusted_percentage)

\* the ids of an assignment that have no factory-worker or no true-worker record
GhostIds(a) ==
    Range(AssignedIds(a)) \ (DictKeys(true_workers) \cap DictKeys(factory_workers))

\* C15 (as claimed): a collection run started on an assignment that holds an id
\* without a worker record returns without raising.
C15_GhostIdsTolerated ==
    [][(state # "running" /\ state' = "running" /\ GhostIds(assignment) # {})
           => ~terminated']_vars

\* what the learned-model snapshot d shows when it is read: under each of its
\* keys the list object of the profile it was taken from, as that list is now
Shown(d, workers) ==
    {<<Digits(s), DictGet(workers, d.performance_percentages.lists_of)
                      .performance_percentages[s]>> :
        s \in {x \in Stations : Digits(x) \in d.performance_percentages.keys}}

\* the content of a retained event e when it is read in the frame st
Content(e, st) ==
    [event |-> e,
     lists |-> IF "factory_workers" \in DOMAIN e
               THEN [i \in 1..Len(e.factory_workers) |->
                        Shown(e.factory_workers[i], st.factory_workers)]
               ELSE <<>>]

\* C16 (as claimed): no later step of the run and no later run on the same
\* worker records changes the content of an event the caller has retained.
C16_SnapshotsIndependent ==
    [][\A j \in 1..Len(run.events) :
           /\ j <= Len(run'.events)
           /\ Content(run'.events[j], run') = Content(run.events[j], run)]_vars

\* the state right after the base phase of a first run over six workers
SixAfterBase ==
    /\ Len(run.factory_workers) = 6
    /\ runs = 1
    /\ run.pc = "position"
    /\ Len(run.events) = 1

SixHiredInOrder ==
    /\ worker_id_counter = 7
    /\ \A i \in Stations :
          /\ run.factory_workers[i].worker_id = FormatId(i)
          /\ true_workers[i].worker_id = FormatId(i)
          /\ run.initial_assign[i] = <<FormatId(i)>>
    /\ \A i, s \in Stations :
          Observations(run, i, s) = IF s = i THEN <<R(100)>> ELSE <<>>

\* C19 (as claimed): six workers 0001..0006, one per station, each holding only
\* its home observation after the base phase, and the base event shows
\* raw_percentage = 100% for every station.
C19_SixWorkersBaseRawPercentage ==
    SixAfterBase =>
        /\ SixHiredInOrder
        /\ run.events[1].phase = "base"
        /\ "performance_comparison" \in DOMAIN run.events[1]
        /\ \A s \in Stations :
              run.events[1].performance_comparison[s].raw_percentage = R(100)

\* C19 (amended): ... and the base event carries the assignment, the station
\* totals and the learned-model snapshot, which shows for every worker an
\* average of 100% at its home station, 0 elsewhere, and a completeness of one
\* sixth; the base event holds no raw percentage.
C19_SixWorkersBaseSnapshot ==
    SixAfterBase =>
        /\ SixHiredInOrder
        /\ DOMAIN run.events[1] =
               {"cycle", "phase", "assignment", "base_performance", "factory_workers"}
        /\ run.events[1].phase = "base"
        /\ run.events[1].assignment = run.initial_assign
        /\ run.events[1].base_performance =
               simulate_station_performance(true_workers, tasks, run.initial_assign)
        /\ \A i \in Stations :
              /\ run.events[1].factory_workers[i].data_completeness = RNorm(100, 6)
              /\ run.events[1].factory_workers[i].performance_percentages.keys
                     = {Digits(i)}
              /\ \A s \in Stations :
                    run.events[1].factory_workers[i].avg_percentages[s] =
                        IF s = i THEN R(100) ELSE R(0)

C19_Witness ==
    /\ SixAfterBase
    /\ run.events[1].phase = "base"
    /\ run.events[1].assignment[WSTATION] = <<FormatId(WSTATION)>>

\* the events of the run in progress: from the last base event on
RunEvents(events) ==
    IF events = <<>> THEN <<>>
    ELSE LET b == CHOOSE j \in 1..Len(events) :
                      /\ events[j].phase = "base"
                      /\ \A k \in (j + 1)..Len(events) : events[k].phase # "base"
         IN  SubSeq(events, b, Len(events))

CohortSize(a, p) == Cardinality(CohortStations(a, p))

\* event f may directly follow event e in a run on the assignment a
Follows(e, f, a) ==
    LET last      == MaxLen(a) - 1
        opens(p)  == \/ f.phase = "skip" /\ f.position_idx = p
                     \/ f.phase = "rotation" /\ f.position_idx = p /\ f.rotation = 0
        closes(p) == IF p < last THEN opens(p + 1) ELSE f.phase = "incomplete_fix"
    IN  CASE e.phase = "base"           -> opens(0)
          [] e.phase = "skip"           -> closes(e.position_idx)
          [] e.phase = "rotation"       ->
                 IF e.rotation + 1 < CohortSize(a, e.position_idx)
                 THEN /\ f.phase = "rotation"
                      /\ f.position_idx = e.position_idx
                      /\ f.rotation = e.rotation + 1
                 ELSE IF e.position_idx < last
                 THEN f.phase = "optimization" /\ f.position_idx = e.position_idx
                 ELSE f.phase = "incomplete_fix"
          [] e.phase = "optimization"   ->
                 e.position_idx < last /\ opens(e.position_idx + 1)
          [] e.phase = "incomplete_fix" -> f.phase = "incomplete_fix"
          [] OTHER                      -> FALSE

\* the rotation events of a sequence of events
RECURSIVE Rotations(_)
Rotations(events) ==
    IF events = <<>> THEN <<>>
    ELSE IF Head(events).phase = "rotation"
         THEN <<Head(events)>> \o Rotations(Tail(events))
         ELSE Rotations(Tail(events))

\* C20: a run's events are one base event, then position by position either
\* one skip event or the rotation events with offsets 0..n-1 followed by one
\* optimization event exactly when the position is not the last, then the
\* incomplete_fix events; the rotation events' cycles count up from 2; a
\* returned run has gone through every position.
C20_EventOrder ==
    LET ev == RunEvents(run.events)
        a  == run.original_assignment
    IN  ev # <<>> =>
            /\ ev[1].phase = "base"
            /\ \A j \in 1..(Len(ev) - 1) : Follows(ev[j], ev[j + 1], a)
            /\ \A k \in 1..Len(Rotations(ev)) : Rotations(ev)[k].cycle = k + 1
            /\ run.pc = "done" =>
                  \E j \in 1..Len(ev) :
                      /\ \/ ev[j].phase = "skip"
                         \/ /\ ev[j].phase = "rotation"
                            /\ ev[j].rotation + 1 = CohortSize(a, ev[j].position_idx)
                      /\ ev[j].position_idx = MaxLen(a) - 1
                      /\ \A k \in (j + 1)..Len(ev) : ev[k].phase = "incomplete_fix"

\* a returned run with two positions: rotations, an optimization between the
\* positions, and gap-filler events at the end
C20_Witness ==
    /\ run.pc = "done"
    /\ MaxLen(run.original_assignment) = 2
    /\ \E j \in 1..Len(run.events) :
          /\ run.events[j].phase = "optimization"
          /\ \E k \in (j + 1)..Len(run.events) :
                run.events[k].phase = "rotation" /\ run.events[k].position_idx = 1
    /\ run.events[Len(run.events)].phase = "incomplete_fix"

\* every worker at position p of the original assignment has full completeness
PositionComplete(st, p) ==
    \A s \in CohortStations(st.original_assignment, p) :
        LET w == st.original_assignment[s][p + 1]
        IN  /\ w \in DictKeys(st.factory_workers)
            /\ get_data_completeness(DictGet(st.factory_workers, w)) = R(100)

\* C21: at the head of position p the position is skipped exactly when every
\* worker at position p of the original assignment is complete; the skip adds
\* exactly one skip event for p, records nothing, keeps the current assignment
\* and goes on to position p + 1 without an optimizer call; otherwise no
\* event is added and the rotation of p begins.
C21_SkipExactlyWhenComplete ==
    [][(run.pc = "position" /\ run.position_idx < run.max_workers_per_station) =>
          IF PositionComplete(run, run.position_idx)
          THEN /\ Len(run'.events) = Len(run.events) + 1
               /\ SubSeq(run'.events, 1, Len(run.events)) = run.events
               /\ run'.events[Len(run'.events)].phase = "skip"
               /\ run'.events[Len(run'.events)].position_idx = run.position_idx
               /\ run'.factory_workers = run.factory_workers
               /\ run'.current_assignment = run.current_assignment
               /\ run'.pc = "position"
               /\ run'.position_idx = run.position_idx + 1
          ELSE /\ run'.events = run.events
               /\ run'.pc = "rotation"
               /\ run'.position_idx = run.position_idx]_vars

\* a run that has skipped position 0 and then rotated position 1
C21_Witness ==
    \E j \in 1..(Len(run.events) - 1) :
        /\ run.events[j].phase = "skip"
        /\ run.events[j].position_idx = 0
        /\ run.events[j + 1].phase = "rotation"
        /\ run.events[j + 1].position_idx = 1

\* the k-th (from 0) station, in ascending order, that has a position p in a
CohortStationAt(a, p, k) ==
    CHOOSE s \in CohortStations(a, p) :
        Cardinality({t \in CohortStations(a, p) : t < s}) = k

\* the assignment the claim describes for offset r of position p: the cohort
\* of the original assignment shifted by r in row p, the current assignment
\* everywhere else
ProbedAssignment(original, current, p, r) ==
    LET n == CohortSize(original, p)
    IN  [s \in Stations |->
            [q \in 1..Len(current[s]) |->
                IF q = p + 1 /\ s \in CohortStations(original, p)
                THEN LET i == Cardinality({t \in CohortStations(original, p) : t < s})
                         u == CohortStationAt(original, p, (i + r) % n)
                     IN  original[u][p + 1]
                ELSE current[s][q]]]

\* C22: a rotation step with offset r of position p probes the assignment that
\* holds worker w_((i+r) mod n) of the original assignment's cohort at position
\* p of the cohort's i-th station and equals the current assignment at every
\* other place; no step of a run after the base phase changes the original
\* assignment or the base performance.
C22_RotationProbesShiftedCohort ==
    [][/\ (run.pc = "rotation" /\ run'.pc # "raised") =>
             LET probed == ProbedAssignment(run.original_assignment,
                                            run.current_assignment,
                                            run.position_idx, run.rotation)
             IN  /\ run'.temp_assignment = probed
                 /\ run'.events[Len(run'.events)].phase = "rotation"
                 /\ run'.events[Len(run'.events)].rotation = run.rotation
                 /\ run'.events[Len(run'.events)].assignment = probed
                 /\ run'.current_assignment = run.current_assignment
       /\ run.pc \notin {"base", "done"} =>
             /\ run'.original_assignment = run.original_assignment
             /\ run'.base_performance = run.base_performance]_vars

\* offset 1 of position 1 has been probed with a cohort of three workers after
\* the optimizer has changed row 0
C22_Witness ==
    /\ run.pc \in {"rotation", "optimize"}
    /\ run.position_idx = 1
    /\ run.rotation = 2
    /\ Len(run.workers_to_rotate) = 3
    /\ run.current_assignment # run.original_assignment
    /\ run.temp_assignment =
           ProbedAssignment(run.original_assignment, run.current_assignment, 1, 1)

\* the probed total of station s over its base total, times 100
ProbedRaw(st, probed, s) ==
    IF st.base_performance[s] = R(0) THEN R(100)
    ELSE RMul(RDiv(simulate_station_performance(true_workers, tasks, probed)[s],
                   st.base_performance[s]),
              R(100))

\* the sum of (learned average for s - 100) over the occupants of station s
\* that the probed assignment holds at a position other than p and that differ
\* from the original assignment's occupant of that position
ProbedAdjustment(st, probed, s, p) ==
    RSum([q \in 1..Len(probed[s]) |->
             IF q # p + 1 /\ probed[s][q] # st.original_assignment[s][q]
             THEN RSub(get_average_percentage(
                           DictGet(st.factory_workers, probed[s][q]), s),
                       R(100))
             ELSE R(0)])

\* C23: a rotation step records, for the worker it has put at cohort station s
\* and only if that worker has no observation for s yet, the single value
\* raw - adjustment, and reports the raw and the adjusted value in the event;
\* while position 0 is probed the adjusted value is the raw value.
C23_RotationObservation ==
    [][(run.pc = "rotation" /\ run'.pc # "raised") =>
          LET p      == run.position_idx
              probed == run'.temp_assignment
              shown  == run'.events[Len(run'.events)].performance_comparison
          IN  \A s \in CohortStations(run.original_assignment, p) :
                  LET w   == probed[s][p + 1]
                      i   == DictIndex(run.factory_workers, w)
                      raw == ProbedRaw(run, probed, s)
                      adj == ProbedAdjustment(run, probed, s, p)
                  IN  IF Observations(run, i, s) = <<>>
                      THEN /\ Observations(run', i, s) = <<RSub(raw, adj)>>
                           /\ s \in DOMAIN shown
                           /\ shown[s] = [raw_percentage      |-> raw,
                                          adjusted_percentage |-> RSub(raw, adj),
                                          worker              |-> w]
                           /\ p = 0 => adj = R(0)
                      ELSE /\ Observations(run', i, s) = Observations(run, i, s)
                           /\ s \notin DOMAIN shown]_vars

\* a rotation of position 1 has recorded an observation whose adjustment is
\* not zero
C23_Witness ==
    /\ run.events # <<>>
    /\ LET e == run.events[Len(run.events)]
       IN  /\ e.phase = "rotation"
           /\ e.position_idx = 1
           /\ \E s \in DOMAIN e.performance_comparison :
                 e.performance_comparison[s].adjusted_percentage
                     # e.performance_comparison[s].raw_percentage

\* the bag of the workers at position p of the stations of a
RowBag(a, p) ==
    LET ss == StationsWithPosition(a, p, 1)
    IN  [w \in {a[ss[i]][p + 1] : i \in 1..Len(ss)} |->
            Cardinality({i \in 1..Len(ss) : a[ss[i]][p + 1] = w})]

\* C24: the assignment optimize_position returns holds at position p a
\* permutation of the workers that current holds there, keeps every station's
\* length and every other position, and the argument is as it was.
C24_OptimizerPermutesOneRow ==
    (call.op = "optimize" /\ ~call.result.raised) =>
        LET cur == call.current_assignment
            p   == call.position_idx
            new == call.result.assignment
        IN  /\ RowBag(new, p) = RowBag(cur, p)
            /\ \A s \in Stations :
                  /\ Len(new[s]) = Len(cur[s])
                  /\ \A q \in 1..Len(cur[s]) : q # p + 1 => new[s][q] = cur[s][q]
            /\ call.current_assignment_after = cur

\* an optimizer call on a row of two or more workers in an assignment with two
\* rows that has moved a worker
C24_Witness ==
    /\ call.op = "optimize"
    /\ ~call.result.raised
    /\ MaxLen(call.current_assignment) = 2
    /\ CohortSize(call.current_assignment, call.position_idx) >= 2
    /\ call.result.assignment # call.current_assignment

\* the set of the workers at position p of the stations of a
RowSet(a, p) == {a[s][p + 1] : s \in CohortStations(a, p)}

\* C25: no step of a run changes the assignment passed in as initial_assign,
\* and the assignment a run returns has, station by station, the lengths of
\* initial_assign and, position by position, its set of workers.
C25_RunKeepsRows ==
    /\ [](run.pc = "done" =>
             /\ \A s \in Stations :
                   Len(run.current_assignment[s]) = Len(run.initial_assign[s])
             /\ \A p \in 0..(MaxLen(run.initial_assign) - 1) :
                   RowSet(run.current_assignment, p) = RowSet(run.initial_assign, p))
    /\ [][run.pc # "done" => run'.initial_assign = run.initial_assign]_vars

\* a returned run over two rows in which the optimizer has exchanged workers
\* and the gap filler has probed
C25_Witness ==
    /\ run.pc = "done"
    /\ MaxLen(run.initial_assign) = 2
    /\ run.current_assignment # run.initial_assign
    /\ run.events[Len(run.events)].phase = "incomplete_fix"

\* C26: a rotation step with offset 0 changes no worker's records and emits an
\* event with an empty performance comparison; a returned first run over N
\* workers has emitted exactly N rotation events.
C26_OffsetZeroRecordsNothing ==
    /\ [][(run.pc = "rotation" /\ run.rotation = 0 /\ run'.pc # "raised") =>
             /\ run'.factory_workers = run.factory_workers
             /\ run'.events[Len(run'.events)].phase = "rotation"
             /\ run'.events[Len(run'.events)].rotation = 0
             /\ run'.events[Len(run'.events)].performance_comparison = <<>>]_vars
    /\ []((runs = 1 /\ run.pc = "done") =>
             Len(Rotations(run.events)) = Len(run.factory_workers))

\* a returned first run over two rows whose offset-0 rotation of position 1
\* came after observations recorded at offset 1 of position 0
C26_Witness ==
    /\ runs = 1
    /\ run.pc = "done"
    /\ \E j \in 1..Len(run.events), k \in 1..Len(run.events) :
          /\ j < k
          /\ run.events[j].phase = "rotation"
          /\ run.events[j].rotation = 1
          /\ run.events[j].performance_comparison # <<>>
          /\ run.events[k].phase = "rotation"
          /\ run.events[k].position_idx = 1
          /\ run.events[k].rotation = 0

\* the incomplete_fix events of a sequence of events, as index set
FixEvents(events) == {j \in 1..Len(events) : events[j].phase = "incomplete_fix"}

\* C27: in a first run on a round-robin assignment of N workers the gap filler
\* is entered only if N mod S # 0, and a returned run has gap-filler probes
\* exactly if N mod S # 0: the probed workers are the N mod S workers of the
\* last row, each probed once at each of the S - (N mod S) stations without a
\* worker in that row and nowhere else.
C27_GapFillerProbesLastRow ==
    LET N    == Len(run.factory_workers)
        a    == run.initial_assign
        last == MaxLen(a) - 1
        fix  == FixEvents(run.events)
    IN  runs = 1 =>
           /\ run.pc = "gap" => N % WSTATION # 0
           /\ run.pc = "done" =>
                 /\ fix # {} <=> N % WSTATION # 0
                 /\ N % WSTATION # 0 =>
                       /\ Cardinality(RowSet(a, last)) = N % WSTATION
                       /\ {run.events[j].worker_id : j \in fix} = RowSet(a, last)
                       /\ \A w \in RowSet(a, last) :
                             LET mine == {j \in fix : run.events[j].worker_id = w}
                             IN  /\ {run.events[j].test_station : j \in mine}
                                        = Stations \ CohortStations(a, last)
                                 /\ Cardinality(mine)
                                        = WSTATION - (N % WSTATION)

\* a returned first run over two rows, the second of four workers, with
\* gap-filler probes
C27_Witness ==
    /\ runs = 1
    /\ run.pc = "done"
    /\ Len(run.factory_workers) = 10
    /\ FixEvents(run.events) # {}

\* C28: the UI state is hiring, running or completed; while running the
\* displayed index is below the length of the history and neither a hire nor
\* a start can change anything; a start without workers can change nothing;
\* the state changes only from hiring or completed to running by a start with
\* at least one worker, or from running to completed by a next-cycle step
\* taken at the last event of the history; it never returns to hiring.
C28_UIStateMachine ==
    /\ [](state \in {"hiring", "running", "completed"})
    /\ [](state = "running" =>
             /\ current_cycle_index < Len(cycle_history)
             /\ ~ENABLED <<Hire>>_vars
             /\ ~ENABLED <<Start>>_vars)
    /\ [](Len(true_workers) = 0 => ~ENABLED <<Start>>_vars)
    /\ [][state' # state =>
             \/ /\ state \in {"hiring", "completed"}
                /\ state' = "running"
                /\ Len(true_workers) >= 1
                /\ Start
             \/ /\ state = "running"
                /\ state' = "completed"
                /\ current_cycle_index = Len(cycle_history) - 1
                /\ NextCycle]_vars
    /\ [][state' = "hiring" => state = "hiring"]_vars

\* completed for the second time: hiring, running, completed, running,
\* completed
C28_Witness ==
    /\ state = "completed"
    /\ runs = 2
    /\ ~terminated
    /\ Len(true_workers) >= 1

\* C29: a hire step taken in the completed state with a stored final report
\* leaves the report as it is, and in the completed state every station's
\* member list in station_details has the length of its worker_count.
C29_HireKeepsFinalReport ==
    /\ [][(/\ state = "completed"
           /\ final_results # None
           /\ worker_id_counter' = worker_id_counter + 1)
          => final_results' = final_results]_vars
    /\ []((state = "completed" /\ final_results # None) =>
             \A s \in Stations :
                 Len(final_results.station_details[s].workers)
                     = final_results.station_details[s].worker_count)

====
